---- MODULE Spec2Model ----
(***************************************************************************)
(* Armbian Imager front end: the FlashProgress component (authorization,   *)
(* download, decompression, flash, device monitor, failure counter) and    *)
(* the DeviceModal / App device selection, as state machines.              *)
(*                                                                         *)
(* Every async function of the source is cut at its awaits: one action per *)
(* run-to-completion step between two awaits.  Backend commands (Tauri     *)
(* invoke) are external: a pending command settles at any later time, with *)
(* any outcome its signature allows.                                       *)
(***************************************************************************)
EXTENDS Integers, Sequences, FiniteSets, TLC

(***************************************************************************)
(* Bounds of the model                                                     *)
(***************************************************************************)
\* handleAuthorization / handleRetry chains per component instance
\* (the mount plus MaxAttempts - 1 Retry clicks)
MaxAttempts == 2
\* progress-poll requests of one kind still in flight when their interval
\* is cleared
MaxInFlight == 1
\* device-monitor enumerations still in flight when the monitor interval is
\* cleared
MaxChecks == 1
\* handleDeviceDisconnected continuations waiting for cancel_operation
MaxDisc == 1
\* handleCancel / handleBack continuations running at the same time
MaxUserTasks == 1
\* callers of getStore
MaxCallers == 3
\* calls of the store plugin's load()
MaxLoads == 3
\* selectCustomImage() calls of handleCustomImage not yet settled
MaxPicks == 1
\* get_cache_size calls in flight
MaxSizeLoads == 1
\* settings-changed events dispatched by the developer-mode toggle
MaxEvents == 2
\* boards in the list getBoards delivers
MaxBoards == 2
\* runs of the preload effect with preloads not yet settled
MaxBatches == 2
\* downloadAndInstall() calls, and relaunch() calls, in flight
MaxUpdaterCalls == 2
\* chunks of an update download
MaxChunks == 2

(***************************************************************************)
(* Program constants                                                       *)
(***************************************************************************)
\* CACHE.MAX_FLASH_FAILURES
MAX_FLASH_FAILURES == 3

\* FlashStage
FlashStage ==
  {"authorizing", "downloading", "verifying_sha", "decompressing",
   "flashing", "verifying", "complete", "error"}

\* activeStages of the device monitor effect
activeStages ==
  {"downloading", "verifying_sha", "decompressing", "flashing", "verifying"}

\* progress_percent values a poll may report (one below, one above the 50
\* that startFlash's poller compares maxProgressRef with)
Percents == {30, 70}

\* device paths an enumeration may list; TargetPath is device.path
TargetPath == "/dev/target"
OtherPath == "/dev/other"
Paths == {TargetPath, OtherPath}

\* image paths
NoPath == "null"
DownloadedPath == "downloaded.img"
CustomPath == "custom.img.xz"
DecompressedPath == "custom.img"

\* error state: null or a message
NoError == "null"
ErrAuthCancelled == "error.authCancelled"
ErrAuthFailed == "error.authFailed"
ErrDeviceDisconnected == "error.deviceDisconnected"
ErrDownloadFailed == "error.downloadFailed"
ErrDecompressionFailed == "error.decompressionFailed"
ErrFlashFailed == "error.flashFailed"
ErrProg == "prog.error"
ErrMessage == "err.message"

\* A rejected invoke() throws the command's error string, never an Error
\* object, so "err instanceof Error ? err.message : t(fallback)" is
\* t(fallback).
RejectKinds == {"other"}

ErrText(r, fallback) == IF r = "Error" THEN ErrMessage ELSE fallback

VARIABLES
  app,        \* App: activeModal, isFlashing, selectedDevice
  dm,         \* DeviceModal: React state, refs, hook state, pending requests
  image,      \* the image prop of FlashProgress: [is_custom, custom_path]
  reported,   \* the progress_percent values the backend reports in this run
  fp,         \* FlashProgress: React state, refs, intervals, pending handlers
  chains,     \* handleAuthorization / handleRetry continuations
  userTasks,  \* handleCancel / handleBack continuations
  storage,    \* sessionStorage item stored under failureStorageKey
  hist,       \* history of the run (not program state)
  side        \* the modules beside the flash flow, one field each

flashVars == <<image, reported, fp, chains, userTasks, storage, hist>>
vars == <<app, dm, image, reported, fp, chains, userTasks, storage, hist, side>>

Min(a, b) == IF a <= b THEN a ELSE b

(***************************************************************************)
(* Block devices as get_block_devices reports them                         *)
(***************************************************************************)
SystemPath == "/dev/system"

\* the disks of the machine; is_system comes with each enumeration
Disks ==
  << [path |-> OtherPath, is_removable |-> FALSE, size |-> 512],
     [path |-> SystemPath, is_removable |-> FALSE, size |-> 256],
     [path |-> TargetPath, is_removable |-> TRUE, size |-> 32] >>

BlockDevice(i, sys) ==
  [path |-> Disks[i].path, is_system |-> sys,
   is_removable |-> Disks[i].is_removable, size |-> Disks[i].size]

\* null as a BlockDevice | null
NoDevice ==
  [path |-> "null", is_system |-> FALSE, is_removable |-> FALSE, size |-> 0]

\* each disk is absent, listed, or listed with is_system; the system disk
\* is never listed without the flag
Presence ==
  {f \in [1..Len(Disks) -> {"absent", "plain", "system"}] :
     \A i \in 1..Len(Disks) : Disks[i].path = SystemPath => f[i] # "plain"}

RECURSIVE ListOf(_, _)
ListOf(f, i) ==
  IF i > Len(Disks) THEN <<>>
  ELSE (IF f[i] = "absent" THEN <<>>
        ELSE <<BlockDevice(i, f[i] = "system")>>) \o ListOf(f, i + 1)

\* what getBlockDevices() may resolve with in DeviceModal
BlockDeviceLists == {ListOf(f, 1) : f \in Presence}

\* BlockDevice[] | null
NoList == [has |-> FALSE, list |-> <<>>]
SomeList(l) == [has |-> TRUE, list |-> l]

(***************************************************************************)
(* DeviceModal: pure functions                                             *)
(***************************************************************************)
devicesChanged(prev, next) ==
  IF ~prev.has THEN TRUE
  ELSE IF Len(prev.list) # Len(next) THEN TRUE
  ELSE LET prevPaths == {prev.list[i].path : i \in 1..Len(prev.list)}
       IN \E i \in 1..Len(next) : next[i].path \notin prevPaths

\* the comparator of sortDevices
compareDevices(a, b) ==
  IF a.is_system # b.is_system THEN (IF a.is_system THEN 1 ELSE -1)
  ELSE IF a.is_removable # b.is_removable
  THEN (IF a.is_removable THEN -1 ELSE 1)
  ELSE b.size - a.size

\* d placed before the first element it sorts before (Array.sort is stable)
RECURSIVE InsertSorted(_, _)
InsertSorted(d, sorted) ==
  IF sorted = <<>> THEN <<d>>
  ELSE IF compareDevices(d, Head(sorted)) < 0 THEN <<d>> \o sorted
  ELSE <<Head(sorted)>> \o InsertSorted(d, Tail(sorted))

RECURSIVE sortDevices(_)
sortDevices(devices) ==
  IF devices = <<>> THEN <<>>
  ELSE InsertSorted(devices[Len(devices)],
                    sortDevices(SubSeq(devices, 1, Len(devices) - 1)))

IsPlain(device) == ~device.is_system

filteredDevices(d) ==
  IF d.showSystemDevices THEN d.devices
  ELSE SelectSeq(d.devices, IsPlain)

\* if (devicesChanged(prevDevicesRef.current, list)) { ref; setDevices }
acceptDevices(d, list) ==
  IF devicesChanged(d.prevDevicesRef, list)
  THEN [d EXCEPT !.prevDevicesRef = SomeList(list),
                 !.devices = sortDevices(list)]
  ELSE d

\* the device handleConfirm would pass if it looked the selection up in
\* the current list
listedDevice(d) ==
  IF \E i \in 1..Len(d.devices) : d.devices[i].path = d.selectedDevice.path
  THEN d.devices[CHOOSE i \in 1..Len(d.devices) :
                   d.devices[i].path = d.selectedDevice.path]
  ELSE d.selectedDevice

\* the device handleConfirm passes: onSelect(selectedDevice)
confirmedDevice(d) == d.selectedDevice

InitDm ==
  [rawDevices |-> NoList, loading |-> FALSE, error |-> FALSE,
   prevDevicesRef |-> NoList, devices |-> <<>>,
   showSystemDevices |-> FALSE, showConfirm |-> FALSE,
   selectedDevice |-> NoDevice, showSkeleton |-> FALSE,
   loads |-> 0, polls |-> 0]

(***************************************************************************)
(* App: what the FlashProgress and DeviceModal callbacks do                *)
(***************************************************************************)
\* null as a Manufacturer, BoardInfo or ImageInfo
NoSelection == "null"
Manufacturers == {"vendor", "other"}
ListedBoard == "board"
CommunityBoard == "communityBoard"
ListedBoards == {ListedBoard, CommunityBoard}
CustomBoard == "custom"
ListedImage == "image"
NightlyImage == "nightly"
ListedImages == {ListedImage, NightlyImage}
CustomImage == "customImage"

\* picks: selectCustomImage() calls of handleCustomImage not yet settled
InitApp == [activeModal |-> "none", isFlashing |-> FALSE,
            selectedManufacturer |-> NoSelection,
            selectedBoard |-> NoSelection,
            selectedImage |-> NoSelection,
            selectedDevice |-> NoDevice, picks |-> 0]

SelectionSteps == <<"manufacturer", "board", "image", "device">>

\* steps.indexOf(step)
indexOf(step) ==
  (CHOOSE i \in 1..Len(SelectionSteps) : SelectionSteps[i] = step) - 1

\* a reset that clears nothing
resetNothing(a, step) == a

resetSelectionsFrom(a, step) ==
  LET stepIndex == indexOf(step)
  IN [a EXCEPT
        !.selectedManufacturer = IF stepIndex <= 0 THEN NoSelection ELSE @,
        !.selectedBoard = IF stepIndex <= 1 THEN NoSelection ELSE @,
        !.selectedImage = IF stepIndex <= 2 THEN NoSelection ELSE @,
        !.selectedDevice = IF stepIndex <= 3 THEN NoDevice ELSE @]

handleManufacturerSelect(a, manufacturer) ==
  [resetSelectionsFrom([a EXCEPT !.selectedManufacturer = manufacturer],
                       "board")
     EXCEPT !.activeModal = "none"]

handleBoardSelect(a, board) ==
  [resetSelectionsFrom([a EXCEPT !.selectedBoard = board], "image")
     EXCEPT !.activeModal = "none"]

handleImageSelect(a, img) ==
  [resetSelectionsFrom([a EXCEPT !.selectedImage = img], "device")
     EXCEPT !.activeModal = "none"]

\* handleCustomImage after selectCustomImage() resolved with a file
handleCustomImage(a) ==
  [resetSelectionsFrom(a, "manufacturer")
     EXCEPT !.selectedBoard = CustomBoard, !.selectedImage = CustomImage]

handleDeviceSelect(a, device) ==
  [a EXCEPT !.selectedDevice = device, !.activeModal = "none",
            !.isFlashing = TRUE]

handleBackFromFlash(a) == [a EXCEPT !.isFlashing = FALSE]

\* setIsFlashing(false); resetSelectionsFrom('manufacturer')
handleComplete(a) ==
  resetSelectionsFrom([a EXCEPT !.isFlashing = FALSE], "manufacturer")

(***************************************************************************)
(* sessionStorage: the failure count is stored as a decimal string         *)
(***************************************************************************)
NoItem == <<>>
DigitChars == <<"0", "1", "2", "3", "4", "5", "6", "7", "8", "9">>

\* Number.prototype.toString() of a non-negative integer
RECURSIVE NumberToString(_)
NumberToString(n) ==
  IF n < 10 THEN <<DigitChars[n + 1]>>
  ELSE NumberToString(n \div 10) \o <<DigitChars[(n % 10) + 1]>>

DigitValue(ch) == (CHOOSE i \in 1..10 : DigitChars[i] = ch) - 1

\* parseInt(s, 10) of a string of decimal digits
RECURSIVE parseInt(_)
parseInt(s) ==
  IF Len(s) = 0 THEN 0
  ELSE parseInt(SubSeq(s, 1, Len(s) - 1)) * 10 + DigitValue(s[Len(s)])

\* getFlashFailureCount: stored ? parseInt(stored, 10) : 0
getFlashFailureCount(st) == IF st = NoItem THEN 0 ELSE parseInt(st)

\* setFlashFailureCount: removeItem for 0, setItem(count.toString()) otherwise
setFlashFailureCount(count) ==
  IF count = 0 THEN NoItem ELSE NumberToString(count)

(***************************************************************************)
(* utils/deviceUtils: only the enumerated paths matter to FlashProgress    *)
(***************************************************************************)
\* what get_block_devices may resolve with, as the set of listed paths
Enumerations == SUBSET Paths

isDeviceConnected(path, devices) == path \in devices

(***************************************************************************)
(* FlashProgress: synchronous pieces, as functions of the component record *)
(***************************************************************************)
NoTimer == <<0, "none">>

\* if (intervalRef.current) clearInterval(intervalRef.current)
\* A cleared id left in the ref is the same as no id: clearing it again
\* does nothing.  The callbacks of the cleared interval that already await
\* their get_*_progress stay in flight.
clearInterval(u) ==
  IF u.intervalRef \in u.timers
  THEN [u EXCEPT !.timers = @ \ {u.intervalRef}, !.intervalRef = NoTimer,
                 !.polls[u.intervalRef[2]] = MaxInFlight]
  ELSE [u EXCEPT !.intervalRef = NoTimer]

\* if (deviceMonitorRef.current) clearInterval(deviceMonitorRef.current)
\* The checkDevice calls that already await getBlockDevices() stay in flight.
clearMonitor(u) ==
  IF u.deviceMonitorRef
  THEN [u EXCEPT !.deviceMonitorRef = FALSE, !.monChecks = MaxChecks]
  ELSE u

\* handleDeviceDisconnected up to its await of cancelOperation()
handleDeviceDisconnected(u) ==
  [clearMonitor(clearInterval(u)) EXCEPT
     !.deviceDisconnectedRef = TRUE,
     !.discPending = Min(@ + 1, MaxDisc)]

\* handleAuthorization up to its await of requestWriteAuthorization()
handleAuthorizationSync(u) ==
  [u EXCEPT !.stage = "authorizing", !.progress = 0, !.error = NoError]

\* startDownload up to its await of downloadImage(), for chain c
startDownloadSync(u, c) ==
  [u EXCEPT !.stage = "downloading", !.progress = 0, !.error = NoError,
            !.maxProgressRef = 0,
            !.timers = @ \cup {<<c, "download">>},
            !.intervalRef = <<c, "download">>]

\* startFlash up to its await of flashImage(), for chain c
startFlashSync(u, c) ==
  [u EXCEPT !.stage = "flashing", !.progress = 0, !.maxProgressRef = 0,
            !.timers = @ \cup {<<c, "flash">>},
            !.intervalRef = <<c, "flash">>]

\* The commit of a step's state updates: setState on an unmounted component
\* does nothing; a changed stage re-runs the device-monitor effect, which
\* clears the monitor interval and, in an active stage, calls checkDevice()
\* at once and starts a new interval.  While the monitor runs, its checks
\* are in flight at any time (checkDevice_settled), so monChecks counts only
\* those left over by a cleared monitor.
Render(old, new) ==
  IF ~old.mounted
  THEN [new EXCEPT !.stage = old.stage, !.progress = old.progress,
                   !.error = old.error, !.imagePath = old.imagePath]
  ELSE IF new.stage = old.stage THEN new
  ELSE IF new.stage \in activeStages
  THEN [new EXCEPT !.deviceMonitorRef = TRUE, !.monChecks = 0]
  ELSE clearMonitor(new)

\* onBack() / onComplete(): App stops rendering FlashProgress; the cleanups
\* of the mount effect and of the monitor effect run, and the component's
\* React state is gone (the refs stay reachable from pending closures).
Unmount(u) ==
  [clearMonitor(clearInterval(u)) EXCEPT
     !.mounted = FALSE, !.stage = "authorizing", !.progress = 0,
     !.error = NoError, !.imagePath = NoPath]

(***************************************************************************)
(* Chains: one per handleAuthorization / handleRetry call.  pc is the      *)
(* await the continuation is parked at; path is the startFlash argument;   *)
(* err is the caught rejection.                                            *)
(***************************************************************************)
Attempts == 1..MaxAttempts
\* authorized: what the attempt's requestWriteAuthorization(device.path)
\* has answered
AuthAnswers == {"none", "pending", "true", "false", "rejected"}
IdleChain == [pc |-> "idle", path |-> NoPath, err |-> "none",
              authorized |-> "none"]
Parked(ch, pc, path, err) == [ch EXCEPT !.pc = pc, !.path = path, !.err = err]
DoneChain(ch) == Parked(ch, "done", NoPath, "none")
Requested(pc, path) ==
  [pc |-> pc, path |-> path, err |-> "none", authorized |-> "pending"]
Answer(authorized) == IF authorized THEN "true" ELSE "false"

\* awaits of the three long-running commands
OperationPcs == {"download", "decomp", "flash"}

Outstanding(ch) == {c \in Attempts : ch[c].pc \in OperationPcs}

HasFreeChain == \E c \in Attempts : chains[c].pc = "idle"
NextChain == CHOOSE c \in Attempts :
               /\ chains[c].pc = "idle"
               /\ \A d \in Attempts : d < c => chains[d].pc # "idle"

(***************************************************************************)
(* hooks/useSettings: getStore.  load() is the store plugin's; the n-th    *)
(* call of load() returns promise n, which resolves with store object n.   *)
(* A caller awaits the promise getStore returned to it.                    *)
(***************************************************************************)
NoStore == 0
Callers == 1..MaxCallers

InitStore ==
  [storeInstance |-> NoStore, storePromise |-> NoStore,
   pending |-> {}, loads |-> 0,
   callers |-> [k \in Callers |-> [at |-> "idle", promise |-> NoStore,
                                    store |-> NoStore]]]

\* a getStore without the cached promise
loadsAfresh(s) == TRUE

\* if (!storePromise) { storePromise = load(...).then(...).catch(...) }
needsLoad(s) == s.storePromise = NoStore

\* the synchronous body of getStore, for caller k
getStore(s, k) ==
  IF s.storeInstance # NoStore
  THEN [s EXCEPT !.callers[k] = [at |-> "got", promise |-> NoStore,
                                 store |-> s.storeInstance]]
  ELSE LET n == s.loads + 1
           t == IF needsLoad(s)
                THEN [s EXCEPT !.storePromise = n, !.loads = n,
                               !.pending = @ \cup {n}]
                ELSE s
       IN [t EXCEPT !.callers[k] = [at |-> "waiting",
                                    promise |-> t.storePromise,
                                    store |-> NoStore]]

\* what the callers awaiting promise n get when it settles
settle(s, n, at, store) ==
  [k \in Callers |->
     IF s.callers[k].at = "waiting" /\ s.callers[k].promise = n
     THEN [at |-> at, promise |-> NoStore, store |-> store]
     ELSE s.callers[k]]

\* .then(store => { storeInstance = store; storePromise = null; return store })
loadResolved(s, n) ==
  [s EXCEPT !.storeInstance = n, !.storePromise = NoStore,
            !.pending = @ \ {n}, !.callers = settle(s, n, "got", n)]

\* .catch(error => { storePromise = null; throw new Error(...) })
loadRejected(s, n) ==
  [s EXCEPT !.storePromise = NoStore, !.pending = @ \ {n},
            !.callers = settle(s, n, "failed", NoStore)]

\* getTheme, setTheme, ...: const store = await getStore()
callGetStore ==
  /\ \E k \in Callers :
       /\ side.ss.callers[k].at # "waiting"
       /\ \/ side.ss.storeInstance # NoStore
          \/ ~needsLoad(side.ss)
          \/ side.ss.loads < MaxLoads
       /\ side' = [side EXCEPT !.ss = getStore(@, k)]
  /\ UNCHANGED <<app, dm, flashVars>>

load_settled ==
  /\ \E n \in side.ss.pending :
       \/ side' = [side EXCEPT !.ss = loadResolved(@, n)]
       \/ side' = [side EXCEPT !.ss = loadRejected(@, n)]
  /\ UNCHANGED <<app, dm, flashVars>>

NextStore ==
  \/ callGetStore
  \/ load_settled

(***************************************************************************)
(* ImageModal: the warning before an unstable image is selected            *)
(***************************************************************************)
\* image.armbian_version, in parts
armbian_version(img) ==
  IF img = NightlyImage THEN <<"25.5.0", "trunk", "412">> ELSE <<"25.2.1">>

\* String.prototype.includes, on the parts
includes(version, part) == \E i \in 1..Len(version) : version[i] = part

\* board?.has_community_support === true
has_community_support(board) == board = CommunityBoard

\* handleImageClick: isNightly || isCommunityBoard
needsWarning(img, board) ==
  includes(armbian_version(img), "trunk") \/ has_community_support(board)

InitIm == [pendingImage |-> NoSelection, showUnstableWarning |-> FALSE]

\* an ImageModal without the effect on isOpen
noCloseEffect(m, isOpen) == m

\* useEffect(() => { if (!isOpen) { setPendingImage(null);
\*                                  setShowUnstableWarning(false) } }, [isOpen])
closeEffect(m, isOpen) == IF ~isOpen THEN InitIm ELSE m

(***************************************************************************)
(* settings/GeneralSection: the cache size and the Clear button.  clears   *)
(* and sizeLoads count the clear_cache and get_cache_size calls in flight. *)
(***************************************************************************)
\* what get_cache_size may report, in bytes
CacheSizes == {0, 2048}

InitGs ==
  [currentCacheSize |-> 0, isClearing |-> FALSE,
   isLoadingCacheSize |-> TRUE, showClearConfirm |-> FALSE,
   clears |-> 0, sizeLoads |-> 0]

\* a Clear button that is never disabled
clearNeverDisabled(g) == FALSE

\* disabled={isClearing || currentCacheSize === 0}
clearDisabled(g) == g.isClearing \/ g.currentCacheSize = 0

\* loadCacheSize (mount effect, handleCacheMaxSizeChange) up to its await
loadCacheSize ==
  /\ side.gs.sizeLoads < MaxSizeLoads
  /\ side' = [side EXCEPT !.gs.isLoadingCacheSize = TRUE,
                          !.gs.sizeLoads = @ + 1]
  /\ UNCHANGED <<app, dm, flashVars>>

\* getCacheSize() resolved: setCurrentCacheSize(size); finally
loadCacheSize_resolved ==
  /\ side.gs.sizeLoads > 0
  /\ \E size \in CacheSizes :
       side' = [side EXCEPT !.gs.currentCacheSize = size,
                            !.gs.isLoadingCacheSize = FALSE,
                            !.gs.sizeLoads = @ - 1]
  /\ UNCHANGED <<app, dm, flashVars>>

\* getCacheSize() rejected: console.error; finally
loadCacheSize_rejected ==
  /\ side.gs.sizeLoads > 0
  /\ side' = [side EXCEPT !.gs.isLoadingCacheSize = FALSE,
                          !.gs.sizeLoads = @ - 1]
  /\ UNCHANGED <<app, dm, flashVars>>

\* the Clear button; the dialog's overlay covers it while the dialog is open
handleClearCacheClick ==
  /\ ~clearDisabled(side.gs) /\ ~side.gs.showClearConfirm
  /\ side' = [side EXCEPT !.gs.showClearConfirm = TRUE]
  /\ UNCHANGED <<app, dm, flashVars>>

\* onCancel={() => setShowClearConfirm(false)}
cancelClearConfirm ==
  /\ side.gs.showClearConfirm
  /\ side' = [side EXCEPT !.gs.showClearConfirm = FALSE]
  /\ UNCHANGED <<app, dm, flashVars>>

\* handleClearCacheConfirm up to its await of clearCache()
handleClearCacheConfirm ==
  /\ side.gs.showClearConfirm
  /\ side' = [side EXCEPT !.gs.showClearConfirm = FALSE,
                          !.gs.isClearing = TRUE,
                          !.gs.clears = @ + 1]
  /\ UNCHANGED <<app, dm, flashVars>>

\* clearCache() resolved: setCurrentCacheSize(0); finally
clearCache_resolved ==
  /\ side.gs.clears > 0
  /\ side' = [side EXCEPT !.gs.currentCacheSize = 0,
                          !.gs.isClearing = FALSE,
                          !.gs.clears = @ - 1]
  /\ UNCHANGED <<app, dm, flashVars>>

\* clearCache() rejected: catch { }; finally
clearCache_rejected ==
  /\ side.gs.clears > 0
  /\ side' = [side EXCEPT !.gs.isClearing = FALSE, !.gs.clears = @ - 1]
  /\ UNCHANGED <<app, dm, flashVars>>

(***************************************************************************)
(* settings/AdvancedSection: the developer-mode toggle.  calls holds the   *)
(* setDeveloperMode calls in flight with the constants of their closure;   *)
(* events counts the settings-changed events dispatched.                   *)
(***************************************************************************)
InitAdv ==
  [developerMode |-> FALSE, isToggling |-> FALSE, calls |-> <<>>,
   events |-> 0, loading |-> TRUE]

\* a catch block that leaves the optimistic value
keepOptimistic(a, call) == a

\* catch: setDeveloperModeState(previousValue)
rollback(a, call) == [a EXCEPT !.developerMode = call.previousValue]

\* the mount effect's getDeveloperMode() settled
getDeveloperMode_settled ==
  /\ side.adv.loading
  /\ \/ \E value \in BOOLEAN :
          side' = [side EXCEPT !.adv.developerMode = value,
                               !.adv.loading = FALSE]
     \/ side' = [side EXCEPT !.adv.loading = FALSE]
  /\ UNCHANGED <<app, dm, flashVars>>

\* the checkbox (disabled={isToggling}): handleToggleDeveloperMode up to
\* its await of setDeveloperMode(newValue)
handleToggleDeveloperMode ==
  /\ ~side.adv.isToggling
  /\ side.adv.events < MaxEvents
  /\ side' = IF side.adv.isToggling THEN side
             ELSE [side EXCEPT
                     !.adv.developerMode = ~@,
                     !.adv.isToggling = TRUE,
                     !.adv.calls = Append(@,
                        [previousValue |-> side.adv.developerMode,
                         newValue |-> ~side.adv.developerMode])]
  /\ UNCHANGED <<app, dm, flashVars>>

\* setDeveloperMode resolved: dispatchEvent(SETTINGS_CHANGED); finally
setDeveloperMode_resolved ==
  /\ side.adv.calls # <<>>
  /\ side' = [side EXCEPT !.adv.calls = Tail(@),
                          !.adv.events = @ + 1,
                          !.adv.isToggling = FALSE]
  /\ UNCHANGED <<app, dm, flashVars>>

\* setDeveloperMode rejected: rollback; finally
setDeveloperMode_rejected ==
  /\ side.adv.calls # <<>>
  /\ side' = [side EXCEPT !.adv =
       [rollback(@, Head(@.calls)) EXCEPT !.calls = Tail(@),
                                          !.isToggling = FALSE]]
  /\ UNCHANGED <<app, dm, flashVars>>

NextSettings ==
  \/ loadCacheSize
  \/ loadCacheSize_resolved
  \/ loadCacheSize_rejected
  \/ handleClearCacheClick
  \/ cancelClearConfirm
  \/ handleClearCacheConfirm
  \/ clearCache_resolved
  \/ clearCache_rejected
  \/ getDeveloperMode_settled
  \/ handleToggleDeveloperMode
  \/ setDeveloperMode_resolved
  \/ setDeveloperMode_rejected

(***************************************************************************)
(* hooks/useVendorLogos: useVendorLogos and useManufacturerList.  The      *)
(* hook's inputs (boards, isActive, searchFilter) change as its component  *)
(* re-renders; batches holds the preloads of each run of the preload       *)
(* effect that has not settled entirely.                                   *)
(***************************************************************************)
VENDOR_FALLBACK_ID == "other"
NoLogo == ""
\* boards: null, or the array getBoards delivered
NoBoards == [has |-> FALSE, list |-> <<>>]
SomeBoards(list) == [has |-> TRUE, list |-> list]

\* the vendors of the catalogue; every board of a vendor carries its logo
VendorIds == {"radxa", "pine64", "olimex", VENDOR_FALLBACK_ID}

logoOf(vendor) ==
  CASE vendor = "radxa" -> "radxa.png"
    [] vendor = "pine64" -> "pine64.png"
    [] OTHER -> NoLogo

\* logo URLs that do not load
BrokenUrls == {"pine64.png"}

\* utils preloadImage: resolves true on load, false on error
preloadImage(url) == url \notin BrokenUrls

BoardInfos ==
  {[vendor |-> v, vendor_logo |-> logoOf(v),
    has_platinum_support |-> p, has_standard_support |-> ~p] :
     v \in VendorIds, p \in BOOLEAN}

\* what getBoards may deliver
BoardLists == UNION {[1..n -> BoardInfos] : n \in 0..MaxBoards}

SearchFilters == {"", "radxa"}

InitVl ==
  [isActive |-> FALSE, boards |-> NoBoards, searchFilter |-> "",
   state |-> [failedLogos |-> {}, isLoaded |-> FALSE],
   batches |-> <<>>, catalogue |-> NoBoards]

\* the keys of the Map the preload effect builds
vendorLogos(boards) ==
  {boards[i].vendor : i \in {j \in DOMAIN boards :
      /\ boards[j].vendor # ""
      /\ boards[j].vendor # VENDOR_FALLBACK_ID
      /\ boards[j].vendor_logo # NoLogo}}

\* the effect returns without preloading
preloadSkipped(v) ==
  \/ ~v.isActive
  \/ v.boards = NoBoards
  \/ v.boards.list = <<>>
  \/ v.state.isLoaded

\* a run of the preload effect starts a batch
startsBatch(v) == ~preloadSkipped(v) /\ vendorLogos(v.boards.list) # {}

\* the reset effect, on [isActive]
resetEffect(v) ==
  IF ~v.isActive
  THEN [v EXCEPT !.state = [failedLogos |-> {}, isLoaded |-> FALSE]]
  ELSE v

\* the preload effect, on [isActive, boards, state.isLoaded]
preloadEffect(v) ==
  IF preloadSkipped(v) THEN v
  ELSE IF vendorLogos(v.boards.list) = {}
  THEN [v EXCEPT !.state = [failedLogos |-> {}, isLoaded |-> TRUE]]
  ELSE [v EXCEPT !.batches = Append(@,
          [pending |-> vendorLogos(v.boards.list), failed |-> {},
           loaded |-> 0,
           size |-> Cardinality(vendorLogos(v.boards.list))])]

hasValidLogo(board, failedLogos) ==
  board.vendor_logo # NoLogo /\ board.vendor \notin failedLogos

\* the vendorId useManufacturerList counts a board under
vendorIdOf(board, failedLogos) ==
  IF hasValidLogo(board, failedLogos)
  THEN IF board.vendor # "" THEN board.vendor ELSE VENDOR_FALLBACK_ID
  ELSE VENDOR_FALLBACK_ID

\* the lower-cased name of an entry: vendor_name, or 'Other'
nameOf(id) == id

\* name.toLowerCase().includes(searchLower), for the names of the catalogue
nameIncludes(name, searchLower) == searchLower = "" \/ name = searchLower

\* Object.entries(vendorMap): the keys in the order of their insertion
RECURSIVE keysOf(_, _)
keysOf(boards, failedLogos) ==
  IF boards = <<>> THEN <<>>
  ELSE LET n == Len(boards)
           before == keysOf(SubSeq(boards, 1, n - 1), failedLogos)
           id == vendorIdOf(boards[n], failedLogos)
       IN IF \E i \in DOMAIN before : before[i] = id THEN before
          ELSE Append(before, id)

entryOf(id, boards, failedLogos) ==
  LET mine == {i \in DOMAIN boards : vendorIdOf(boards[i], failedLogos) = id}
  IN [id |-> id, name |-> nameOf(id),
      boardCount |-> Cardinality(mine),
      platinumCount |->
        Cardinality({i \in mine : boards[i].has_platinum_support}),
      standardCount |->
        Cardinality({i \in mine : boards[i].has_standard_support})]

\* the comparator of the sort
compare(a, b) ==
  IF a.id = VENDOR_FALLBACK_ID THEN 1
  ELSE IF b.id = VENDOR_FALLBACK_ID THEN -1
  ELSE IF a.platinumCount > 1 /\ ~(b.platinumCount > 1) THEN -1
  ELSE IF ~(a.platinumCount > 1) /\ b.platinumCount > 1 THEN 1
  ELSE IF a.platinumCount > 1 /\ b.platinumCount > 1
  THEN IF a.platinumCount # b.platinumCount
       THEN b.platinumCount - a.platinumCount
       ELSE b.boardCount - a.boardCount
  ELSE IF a.platinumCount = 1 /\ b.platinumCount # 1 THEN -1
  ELSE IF a.platinumCount # 1 /\ b.platinumCount = 1 THEN 1
  ELSE IF a.platinumCount = 1 /\ b.platinumCount = 1
  THEN IF a.standardCount # b.standardCount
       THEN b.standardCount - a.standardCount
       ELSE b.boardCount - a.boardCount
  ELSE IF a.standardCount > 1 /\ ~(b.standardCount > 1) THEN -1
  ELSE IF ~(a.standardCount > 1) /\ b.standardCount > 1 THEN 1
  ELSE IF a.standardCount > 1 /\ b.standardCount > 1
  THEN IF a.standardCount # b.standardCount
       THEN b.standardCount - a.standardCount
       ELSE b.boardCount - a.boardCount
  ELSE b.boardCount - a.boardCount

\* Array.prototype.sort: stable, here by insertion
RECURSIVE sort(_)
sort(entries) ==
  IF entries = <<>> THEN <<>>
  ELSE LET n == Len(entries)
           x == entries[n]
           sorted == sort(SubSeq(entries, 1, n - 1))
           k == Cardinality({i \in DOMAIN sorted :
                  \A j \in 1..i : compare(sorted[j], x) <= 0})
       IN SubSeq(sorted, 1, k) \o <<x>> \o SubSeq(sorted, k + 1, n - 1)

\* the useMemo of useManufacturerList
manufacturers(v) ==
  IF v.boards = NoBoards \/ ~v.state.isLoaded THEN <<>>
  ELSE LET keys == keysOf(v.boards.list, v.state.failedLogos)
           all == [i \in DOMAIN keys |->
                     entryOf(keys[i], v.boards.list, v.state.failedLogos)]
       IN sort(SelectSeq(all, LAMBDA e :
                 e.boardCount # 0
                 /\ nameIncludes(e.name, v.searchFilter)))

\* isActive changes: both effects run
activeChanged ==
  /\ \E isActive \in BOOLEAN \ {side.vl.isActive} :
       LET v == [side.vl EXCEPT !.isActive = isActive]
       IN /\ startsBatch(resetEffect(v))
               => Len(side.vl.batches) < MaxBatches
          /\ side' = [side EXCEPT !.vl = preloadEffect(resetEffect(v))]
  /\ UNCHANGED <<app, dm, flashVars>>

\* what a fetch may deliver: the backend's list, the same at every fetch
\* (catalogue remembers it), in a new array each time
fetched(v) ==
  IF v.catalogue.has THEN {v.catalogue}
  ELSE {SomeBoards(l) : l \in BoardLists}

\* boards changes (a fetch delivered, or the data was dropped): the preload
\* effect runs
boardsChanged ==
  /\ \E boards \in fetched(side.vl) \cup {NoBoards} :
       LET v == [side.vl EXCEPT !.boards = boards,
                               !.catalogue = IF boards.has THEN boards ELSE @]
       IN /\ startsBatch(v) => Len(side.vl.batches) < MaxBatches
          /\ side' = [side EXCEPT !.vl = preloadEffect(v)]
  /\ UNCHANGED <<app, dm, flashVars>>

\* the search field changes: no effect runs
searchChanged ==
  /\ \E searchFilter \in SearchFilters \ {side.vl.searchFilter} :
       side' = [side EXCEPT !.vl.searchFilter = searchFilter]
  /\ UNCHANGED <<app, dm, flashVars>>

\* the .then of one preloadImage of batch k
preload_settled(k, vendorId) ==
  /\ k \in DOMAIN side.vl.batches
  /\ vendorId \in side.vl.batches[k].pending
  /\ LET b == side.vl.batches[k]
         failed == IF preloadImage(logoOf(vendorId)) THEN b.failed
                   ELSE b.failed \cup {vendorId}
         loaded == b.loaded + 1
         rest == [i \in 1..(Len(side.vl.batches) - 1) |->
                    IF i < k THEN side.vl.batches[i]
                    ELSE side.vl.batches[i + 1]]
     IN IF loaded >= b.size
        THEN side' = [side EXCEPT !.vl =
               preloadEffect([@ EXCEPT
                 !.state = [failedLogos |-> failed, isLoaded |-> TRUE],
                 !.batches = rest])]
        ELSE side' = [side EXCEPT !.vl.batches[k] =
               [@ EXCEPT !.pending = @ \ {vendorId}, !.failed = failed,
                         !.loaded = loaded]]
  /\ UNCHANGED <<app, dm, flashVars>>

NextVendor ==
  \/ activeChanged
  \/ boardsChanged
  \/ searchChanged
  \/ \E k \in 1..MaxBatches, vendorId \in VendorIds :
       preload_settled(k, vendorId)

(***************************************************************************)
(* shared/UpdateModal.  checks, downloads and relaunches count the         *)
(* check(), update.downloadAndInstall() and relaunch() calls in flight;    *)
(* mounted says that the mount effect has run.                             *)
(***************************************************************************)
UpdateState ==
  {"idle", "checking", "available", "downloading", "ready", "error"}

\* progress.total: the content length in chunks, or null, written 0 (the
\* component tests !progress.total only)
Totals == {0, MaxChunks}

InitUm ==
  [state |-> "idle", update |-> FALSE, error |-> FALSE,
   progress |-> [downloaded |-> 0, total |-> 0],
   dismissed |-> FALSE, mounted |-> FALSE,
   checks |-> 0, downloads |-> 0, relaunches |-> 0]

\* a render guard that forgets the dismissal
shownThoughDismissed(u) == ~(u.state = "idle" \/ u.state = "checking")

\* the render guard: if (state === 'idle' || state === 'checking' ||
\* dismissed) return null
modalShown(u) == ~(u.state = "idle" \/ u.state = "checking" \/ u.dismissed)

\* checkForUpdate up to its await of check()
checkForUpdate(u) ==
  [u EXCEPT !.state = "checking", !.error = FALSE, !.checks = @ + 1]

\* handleDownloadAndInstall up to its await
handleDownloadAndInstall(u) ==
  IF ~u.update THEN u
  ELSE [u EXCEPT !.state = "downloading",
                 !.progress = [downloaded |-> 0, total |-> 0],
                 !.downloads = @ + 1]

handleLater(u) == [u EXCEPT !.dismissed = TRUE]

\* handleRetry of the update modal
handleUpdateRetry(u) ==
  IF u.state = "error" /\ u.update THEN handleDownloadAndInstall(u)
  ELSE checkForUpdate(u)

\* the mount effect: checkForUpdate()
mountUpdateModal ==
  /\ ~side.um.mounted
  /\ side' = [side EXCEPT !.um = checkForUpdate([@ EXCEPT !.mounted = TRUE])]
  /\ UNCHANGED <<app, dm, flashVars>>

\* check() resolved, with an update or with null
check_resolved ==
  /\ side.um.checks > 0
  /\ \E updateResult \in BOOLEAN :
       side' = [side EXCEPT !.um =
         IF updateResult
         THEN [@ EXCEPT !.update = TRUE, !.state = "available",
                        !.checks = @ - 1]
         ELSE [@ EXCEPT !.state = "idle", !.checks = @ - 1]]
  /\ UNCHANGED <<app, dm, flashVars>>

\* check() rejected
check_rejected ==
  /\ side.um.checks > 0
  /\ side' = [side EXCEPT !.um.state = "idle", !.um.checks = @ - 1]
  /\ UNCHANGED <<app, dm, flashVars>>

\* the Update button of the 'available' state
updateClicked ==
  /\ modalShown(side.um) /\ side.um.state = "available"
  /\ side.um.update => side.um.downloads < MaxUpdaterCalls
  /\ side' = [side EXCEPT !.um = handleDownloadAndInstall(@)]
  /\ UNCHANGED <<app, dm, flashVars>>

\* the 'Started' event of a download in flight
downloadStartedEvent ==
  /\ side.um.downloads > 0
  /\ \E total \in Totals :
       side' = [side EXCEPT !.um.progress =
                  [downloaded |-> 0, total |-> total]]
  /\ UNCHANGED <<app, dm, flashVars>>

\* a 'Progress' event of a download in flight, of one chunk
downloadProgressEvent ==
  /\ side.um.downloads > 0
  /\ side.um.progress.downloaded < MaxChunks
  /\ side' = [side EXCEPT !.um.progress.downloaded = @ + 1]
  /\ UNCHANGED <<app, dm, flashVars>>

\* the 'Finished' event of a download in flight
downloadFinishedEvent ==
  /\ side.um.downloads > 0
  /\ side' = [side EXCEPT !.um.state = "ready"]
  /\ UNCHANGED <<app, dm, flashVars>>

\* update.downloadAndInstall() resolved
download_resolved ==
  /\ side.um.downloads > 0
  /\ side' = [side EXCEPT !.um.state = "ready", !.um.downloads = @ - 1]
  /\ UNCHANGED <<app, dm, flashVars>>

\* update.downloadAndInstall() rejected
download_rejected ==
  /\ side.um.downloads > 0
  /\ side' = [side EXCEPT !.um.error = TRUE, !.um.state = "error",
                          !.um.downloads = @ - 1]
  /\ UNCHANGED <<app, dm, flashVars>>

\* the Restart button of the 'ready' state: handleRelaunch up to its await
relaunchClicked ==
  /\ modalShown(side.um) /\ side.um.state = "ready"
  /\ side.um.relaunches < MaxUpdaterCalls
  /\ side' = [side EXCEPT !.um.relaunches = @ + 1]
  /\ UNCHANGED <<app, dm, flashVars>>

\* relaunch() rejected
relaunch_rejected ==
  /\ side.um.relaunches > 0
  /\ side' = [side EXCEPT !.um.error = TRUE, !.um.state = "error",
                          !.um.relaunches = @ - 1]
  /\ UNCHANGED <<app, dm, flashVars>>

\* the close button of 'available' and the Later / Cancel buttons
laterClicked ==
  /\ modalShown(side.um)
  /\ side.um.state \in {"available", "downloading", "error"}
  /\ side' = [side EXCEPT !.um = handleLater(@)]
  /\ UNCHANGED <<app, dm, flashVars>>

\* the Retry button of the 'error' state
retryClicked ==
  /\ modalShown(side.um) /\ side.um.state = "error"
  /\ side.um.update => side.um.downloads < MaxUpdaterCalls
  /\ side' = [side EXCEPT !.um = handleUpdateRetry(@)]
  /\ UNCHANGED <<app, dm, flashVars>>

NextUpdate ==
  \/ mountUpdateModal
  \/ check_resolved
  \/ check_rejected
  \/ updateClicked
  \/ downloadStartedEvent
  \/ downloadProgressEvent
  \/ downloadFinishedEvent
  \/ download_resolved
  \/ download_rejected
  \/ relaunchClicked
  \/ relaunch_rejected
  \/ laterClicked
  \/ retryClicked

(***************************************************************************)
(* The modules beside the flash flow start at rest                         *)
(***************************************************************************)
InitSide ==
  [ss |-> InitStore, im |-> InitIm, gs |-> InitGs, adv |-> InitAdv,
   vl |-> InitVl, um |-> InitUm]

(***************************************************************************)
(* Initial state: FlashProgress rendered for a non-system device, before   *)
(* its mount effect has run.  The failure count of the image survives      *)
(* earlier instances of the component, so it starts at any value an        *)
(* earlier run can leave below the threshold.                              *)
(***************************************************************************)
Images ==
  { [is_custom |-> FALSE, custom_path |-> NoPath],
    [is_custom |-> TRUE, custom_path |-> CustomPath] }

InitFp ==
  [mounted |-> TRUE, stage |-> "authorizing", progress |-> 0,
   error |-> NoError, imagePath |-> NoPath,
   intervalRef |-> NoTimer, timers |-> {},
   polls |-> [k \in {"download", "flash"} |-> 0],
   deviceMonitorRef |-> FALSE, monChecks |-> 0,
   maxProgressRef |-> 0, hasStartedRef |-> FALSE,
   deviceDisconnectedRef |-> FALSE, discPending |-> 0]

\* streak: flash failures counted in a row, with no successful flash in
\* between; cancelled: the attempts whose flash_image was outstanding when
\* a user Cancel's cancel_operation succeeded; detected: the attempts whose
\* flash_image was outstanding when the target device was found disconnected
\* deleted: a delete command that the catch block of startFlash issued for
\* the image file has succeeded, and the file has not been written since
InitHist == [streak |-> 0, cancelled |-> {}, detected |-> {}, deleted |-> FALSE]

\* the failure counts sessionStorage may hold when the component mounts:
\* none, or one short of the limit
InitialCounts == {0, MAX_FLASH_FAILURES - 1}

\* the device prop: the non-system device DeviceModal handed to App
TargetDevice ==
  BlockDevice(CHOOSE i \in 1..Len(Disks) : Disks[i].path = TargetPath, FALSE)

\* App after the selections that let the user open DeviceModal
ImageChosen(custom) ==
  IF custom THEN handleCustomImage(InitApp)
  ELSE handleImageSelect(
         handleBoardSelect(
           handleManufacturerSelect(InitApp, "vendor"), ListedBoard),
         ListedImage)

InitFlash ==
  /\ image \in Images
  /\ app = handleDeviceSelect(ImageChosen(image.is_custom), TargetDevice)
  /\ dm = InitDm
  /\ fp = InitFp
  /\ chains = [c \in Attempts |-> IdleChain]
  /\ userTasks = {}
  /\ storage \in {setFlashFailureCount(n) : n \in InitialCounts}
  /\ image.is_custom => storage = NoItem
  /\ hist = [InitHist EXCEPT !.streak = getFlashFailureCount(storage)]
  /\ side = InitSide

\* The percentage a poll reports decides no branch but the update of the
\* displayed progress, so in the specification of the control flow the
\* backend reports 0 throughout; SpecProgress lets it report any of Percents.
Init ==
  /\ InitFlash
  /\ reported = {0}

(***************************************************************************)
(* Mount effect: hasStartedRef, then handleAuthorization()                 *)
(***************************************************************************)
Mount ==
  /\ fp.mounted /\ ~fp.hasStartedRef
  /\ fp' = Render(fp, [handleAuthorizationSync(fp) EXCEPT !.hasStartedRef = TRUE])
  /\ chains' = [chains EXCEPT ![1] = Requested("auth", NoPath)]
  /\ UNCHANGED <<side, app, dm, image, reported, userTasks, storage, hist>>

(***************************************************************************)
(* handleAuthorization after requestWriteAuthorization(device.path)        *)
(***************************************************************************)
\* handleAuthorization without its `if (!authorized)` return
authorizationIgnored(authorized) == TRUE

\* if (!authorized) { setError; setStage('error'); return; }
authorizationProceeds(authorized) == authorized

\* resolved with true or false
handleAuthorization_resolved(c) ==
  /\ chains[c].pc = "auth"
  /\ \E authorized \in BOOLEAN :
       LET ch == [chains[c] EXCEPT !.authorized = Answer(authorized)]
       IN IF ~authorizationProceeds(authorized)
          THEN /\ fp' = Render(fp, [fp EXCEPT !.error = ErrAuthCancelled,
                                              !.stage = "error"])
               /\ chains' = [chains EXCEPT ![c] = DoneChain(ch)]
          ELSE IF image.is_custom /\ image.custom_path # NoPath
          THEN \* handleCustomImage: await checkNeedsDecompression(customPath)
               /\ fp' = fp
               /\ chains' = [chains EXCEPT
                    ![c] = Parked(ch, "needs", image.custom_path, "none")]
          ELSE \* startDownload(): await downloadImage(file_url, file_url_sha)
               /\ fp' = Render(fp, startDownloadSync(fp, c))
               /\ chains' = [chains EXCEPT
                    ![c] = Parked(ch, "download", NoPath, "none")]
  /\ UNCHANGED <<side, app, dm, image, reported, userTasks, storage, hist>>

\* rejected: catch (err) { setError(...); setStage('error'); }
handleAuthorization_rejected(c) ==
  /\ chains[c].pc = "auth"
  /\ \E r \in RejectKinds :
       fp' = Render(fp, [fp EXCEPT !.error = ErrText(r, ErrAuthFailed),
                                  !.stage = "error"])
  /\ chains' = [chains EXCEPT
                  ![c] = DoneChain([@ EXCEPT !.authorized = "rejected"])]
  /\ UNCHANGED <<side, app, dm, image, reported, userTasks, storage, hist>>

(***************************************************************************)
(* handleCustomImage                                                       *)
(***************************************************************************)
\* the catch block of handleCustomImage, startDownload and startFlash up to
\* its await of getBlockDevices(): nothing more once a disconnection is
\* flagged
CatchRejected(c, r, enumPc) ==
  IF fp.deviceDisconnectedRef
  THEN DoneChain(chains[c])
  ELSE Parked(chains[c], enumPc, chains[c].path, r)

\* checkNeedsDecompression(customPath) resolved
handleCustomImage_needsResolved(c) ==
  /\ chains[c].pc = "needs"
  /\ \E needsDecompress \in BOOLEAN :
       IF needsDecompress
       THEN /\ fp' = Render(fp, [fp EXCEPT !.stage = "decompressing",
                                           !.progress = 0])
            /\ chains' = [chains EXCEPT ![c].pc = "decomp"]
       ELSE /\ fp' = Render(fp, startFlashSync(
                               [fp EXCEPT !.imagePath = chains[c].path], c))
            /\ chains' = [chains EXCEPT ![c].pc = "flash"]
  /\ UNCHANGED <<side, app, dm, image, reported, userTasks, storage, hist>>

\* decompressCustomImage(customPath) resolved with the decompressed path
handleCustomImage_decompressResolved(c) ==
  /\ chains[c].pc = "decomp"
  /\ fp' = Render(fp, startFlashSync(
                    [fp EXCEPT !.imagePath = DecompressedPath], c))
  /\ chains' = [chains EXCEPT ![c] = Parked(@, "flash", DecompressedPath, "none")]
  /\ hist' = [hist EXCEPT !.deleted = FALSE]
  /\ UNCHANGED <<side, app, dm, image, reported, userTasks, storage>>

\* checkNeedsDecompression or decompressCustomImage rejected
handleCustomImage_rejected(c) ==
  /\ chains[c].pc \in {"needs", "decomp"}
  /\ \E r \in RejectKinds :
       chains' = [chains EXCEPT ![c] = CatchRejected(c, r, "customEnum")]
  /\ UNCHANGED <<side, app, dm, image, reported, fp, userTasks, storage, hist>>

\* How a getBlockDevices() call settles: resolved with an enumeration, or
\* rejected.
EnumOutcomes ==
  {[resolved |-> TRUE, devices |-> d] : d \in Enumerations}
    \cup {[resolved |-> FALSE, devices |-> {}]}

\* try { devices = await getBlockDevices();
\*       if (!isDeviceConnected(device.path, devices)) ... } catch { }
DeviceGone(devices) ==
  devices.resolved /\ ~isDeviceConnected(TargetPath, devices.devices)

\* history: handleDeviceDisconnected() is called while these attempts'
\* flash_image is outstanding
Detected(h) ==
  [h EXCEPT !.detected = @ \cup {c \in Attempts : chains[c].pc = "flash"}]

\* history: attempt c's flash_image has settled and its handling is decided
Forget(h, c) ==
  [h EXCEPT !.cancelled = @ \ {c}, !.detected = @ \ {c}]

handleCustomImage_enumSettled(c) ==
  /\ chains[c].pc = "customEnum"
  /\ \E devices \in EnumOutcomes :
       IF DeviceGone(devices)
       THEN /\ fp' = Render(fp, handleDeviceDisconnected(fp))
            /\ hist' = Detected(hist)
       ELSE /\ fp' = Render(fp, [fp EXCEPT
                    !.error = ErrText(chains[c].err, ErrDecompressionFailed),
                    !.stage = "error"])
            /\ hist' = hist
  /\ chains' = [chains EXCEPT ![c] = DoneChain(@)]
  /\ UNCHANGED <<side, app, dm, image, reported, userTasks, storage>>

(***************************************************************************)
(* startDownload after downloadImage()                                     *)
(***************************************************************************)
startDownload_resolved(c) ==
  /\ chains[c].pc = "download"
  /\ fp' = Render(fp, startFlashSync(
                    clearInterval([fp EXCEPT !.imagePath = DownloadedPath]), c))
  /\ chains' = [chains EXCEPT ![c] = Parked(@, "flash", DownloadedPath, "none")]
  /\ hist' = [hist EXCEPT !.deleted = FALSE]
  /\ UNCHANGED <<side, app, dm, image, reported, userTasks, storage>>

startDownload_rejected(c) ==
  /\ chains[c].pc = "download"
  /\ fp' = clearInterval(fp)
  /\ \E r \in RejectKinds :
       chains' = [chains EXCEPT ![c] = CatchRejected(c, r, "dlEnum")]
  /\ UNCHANGED <<side, app, dm, image, reported, userTasks, storage, hist>>

startDownload_enumSettled(c) ==
  /\ chains[c].pc = "dlEnum"
  /\ \E devices \in EnumOutcomes :
       IF DeviceGone(devices)
       THEN /\ fp' = Render(fp, handleDeviceDisconnected(fp))
            /\ hist' = Detected(hist)
       ELSE /\ fp' = Render(fp, [fp EXCEPT
                    !.error = ErrText(chains[c].err, ErrDownloadFailed),
                    !.stage = "error"])
            /\ hist' = hist
  /\ chains' = [chains EXCEPT ![c] = DoneChain(@)]
  /\ UNCHANGED <<side, app, dm, image, reported, userTasks, storage>>

(***************************************************************************)
(* startFlash after flashImage(path, device.path, true)                    *)
(***************************************************************************)
\* cleanupImage(path): the delete command it invokes, if any
cleanupImage(path) ==
  IF path = NoPath THEN "none"
  ELSE IF image.is_custom THEN "delete_decompressed_custom_image"
  ELSE "delete_downloaded_image"

\* resolved: complete, reset the failure count, await cleanupImage(path);
\* nothing follows that await, so the chain ends here with the delete
\* command issued
startFlash_resolved(c) ==
  /\ chains[c].pc = "flash"
  /\ fp' = Render(fp, [clearInterval(fp) EXCEPT !.stage = "complete",
                                                !.progress = 100])
  /\ storage' = setFlashFailureCount(0)
  /\ chains' = [chains EXCEPT ![c] = DoneChain(@)]
  /\ hist' = Forget([hist EXCEPT !.streak = 0], c)
  /\ UNCHANGED <<side, app, dm, image, reported, userTasks>>

startFlash_rejected(c) ==
  /\ chains[c].pc = "flash"
  /\ fp' = clearInterval(fp)
  /\ \E r \in RejectKinds :
       chains' = [chains EXCEPT ![c] = CatchRejected(c, r, "flashEnum")]
  /\ hist' = IF fp.deviceDisconnectedRef THEN Forget(hist, c) ELSE hist
  /\ UNCHANGED <<side, app, dm, image, reported, userTasks, storage>>

\* the threshold test with > for >=
tooManyFailuresStrict(currentCount) == currentCount > MAX_FLASH_FAILURES

\* if (currentCount >= CACHE.MAX_FLASH_FAILURES)
tooManyFailures(currentCount) == currentCount >= MAX_FLASH_FAILURES

\* the failure count after one more failure of a non-custom image
countFailure(st) == setFlashFailureCount(getFlashFailureCount(st) + 1)

\* the catch block after getBlockDevices(): disconnected, or count the
\* failure and go on to forceDeleteCachedImage(path) or cleanupImage(path)
startFlash_enumSettled(c) ==
  /\ chains[c].pc = "flashEnum"
  /\ \E devices \in EnumOutcomes :
       IF DeviceGone(devices)
       THEN /\ fp' = Render(fp, handleDeviceDisconnected(fp))
            /\ chains' = [chains EXCEPT ![c] = DoneChain(@)]
            /\ hist' = Forget(Detected(hist), c)
            /\ storage' = storage
       ELSE IF image.is_custom
       THEN /\ chains' = [chains EXCEPT ![c].pc = "cleanupErr"]
            /\ hist' = Forget(hist, c)
            /\ UNCHANGED <<fp, storage>>
       ELSE /\ storage' = countFailure(storage)
            /\ chains' = [chains EXCEPT ![c].pc =
                 IF tooManyFailures(getFlashFailureCount(storage'))
                 THEN "forceDel" ELSE "cleanupErr"]
            /\ hist' = Forget([hist EXCEPT !.streak = @ + 1], c)
            /\ fp' = fp
  /\ UNCHANGED <<side, app, dm, image, reported, userTasks>>

\* forceDeleteCachedImage(path) resolved: setFlashFailureCount(0)
startFlash_forceDeleteResolved(c) ==
  /\ chains[c].pc = "forceDel"
  /\ storage' = setFlashFailureCount(0)
  /\ chains' = [chains EXCEPT ![c].pc = "cleanupErr"]
  /\ hist' = [hist EXCEPT !.deleted = TRUE]
  /\ UNCHANGED <<side, app, dm, image, reported, fp, userTasks>>

\* forceDeleteCachedImage(path) rejected: ignored, the count stays
startFlash_forceDeleteRejected(c) ==
  /\ chains[c].pc = "forceDel"
  /\ chains' = [chains EXCEPT ![c].pc = "cleanupErr"]
  /\ UNCHANGED <<side, app, dm, image, reported, fp, userTasks, storage, hist>>

\* cleanupImage(path) of the catch block settled, either way: show the error
startFlash_cleanupErrSettled(c) ==
  /\ chains[c].pc = "cleanupErr"
  /\ fp' = Render(fp, [fp EXCEPT
               !.error = ErrText(chains[c].err, ErrFlashFailed),
               !.stage = "error"])
  /\ chains' = [chains EXCEPT ![c] = DoneChain(@)]
  /\ \E succeeded \in BOOLEAN :
       hist' = [hist EXCEPT !.deleted =
                  @ \/ (succeeded /\ cleanupImage(chains[c].path) # "none")]
  /\ UNCHANGED <<side, app, dm, image, reported, userTasks, storage>>

(***************************************************************************)
(* handleRetry (FlashActions shows Retry in stage 'error' only)            *)
(***************************************************************************)
handleRetry ==
  /\ fp.mounted /\ fp.stage = "error" /\ HasFreeChain
  /\ LET base == [fp EXCEPT !.error = NoError,
                            !.deviceDisconnectedRef = FALSE]
     IN IF fp.imagePath # NoPath
        THEN \* re-authorize, then startFlash(imagePath)
             /\ fp' = Render(fp, [base EXCEPT !.stage = "authorizing"])
             /\ chains' = [chains EXCEPT
                  ![NextChain] = Requested("reauth", fp.imagePath)]
        ELSE \* handleAuthorization()
             /\ fp' = Render(fp, handleAuthorizationSync(base))
             /\ chains' = [chains EXCEPT
                  ![NextChain] = Requested("auth", NoPath)]
  /\ UNCHANGED <<side, app, dm, image, reported, userTasks, storage, hist>>

\* if (!authorized) { setError; setStage('error'); return; }
retryProceeds(authorized) == authorized

handleRetry_resolved(c) ==
  /\ chains[c].pc = "reauth"
  /\ \E authorized \in BOOLEAN :
       LET ch == [chains[c] EXCEPT !.authorized = Answer(authorized)]
       IN IF ~retryProceeds(authorized)
          THEN /\ fp' = Render(fp, [fp EXCEPT !.error = ErrAuthCancelled,
                                              !.stage = "error"])
               /\ chains' = [chains EXCEPT ![c] = DoneChain(ch)]
          ELSE /\ fp' = Render(fp, startFlashSync(fp, c))
               /\ chains' = [chains EXCEPT
                    ![c] = Parked(ch, "flash", ch.path, "none")]
  /\ UNCHANGED <<side, app, dm, image, reported, userTasks, storage, hist>>

handleRetry_rejected(c) ==
  /\ chains[c].pc = "reauth"
  /\ \E r \in RejectKinds :
       fp' = Render(fp, [fp EXCEPT !.error = ErrText(r, ErrAuthFailed),
                                  !.stage = "error"])
  /\ chains' = [chains EXCEPT
                  ![c] = DoneChain([@ EXCEPT !.authorized = "rejected"])]
  /\ UNCHANGED <<side, app, dm, image, reported, userTasks, storage, hist>>

(***************************************************************************)
(* handleCancel, handleBack, onComplete (FlashActions buttons)             *)
(***************************************************************************)
\* Cancel is shown in every stage but 'complete' and 'error'
handleCancel ==
  /\ fp.mounted /\ fp.hasStartedRef
  /\ fp.stage \notin {"complete", "error"}
  /\ Cardinality(userTasks) < MaxUserTasks
  /\ LET t == [pc |-> "cancel", path |-> fp.imagePath]
     IN /\ t \notin userTasks
        /\ userTasks' = userTasks \cup {t}
  /\ UNCHANGED <<side, app, dm, image, reported, fp, chains, storage, hist>>

\* cancelOperation() resolved: clearInterval, cleanupImage(imagePath), onBack()
handleCancel_resolved(t) ==
  /\ t \in userTasks /\ t.pc = "cancel"
  /\ IF cleanupImage(t.path) = "none"
     THEN /\ fp' = Unmount(clearInterval(fp))
          /\ app' = handleBackFromFlash(app)
          /\ userTasks' = userTasks \ {t}
     ELSE /\ fp' = clearInterval(fp)
          /\ app' = app
          /\ userTasks' = (userTasks \ {t}) \cup {[t EXCEPT !.pc = "cleanup"]}
  /\ hist' = [hist EXCEPT !.cancelled =
                 {c \in Attempts : chains[c].pc = "flash"}]
  /\ UNCHANGED <<side, dm, image, reported, chains, storage>>

\* cancelOperation() rejected: catch { /* Ignore */ }
handleCancel_rejected(t) ==
  /\ t \in userTasks /\ t.pc = "cancel"
  /\ userTasks' = userTasks \ {t}
  /\ UNCHANGED <<side, app, dm, image, reported, fp, chains, storage, hist>>

\* Back (Cancel in stage 'error', Flash another in stage 'complete')
handleBack ==
  /\ fp.mounted /\ fp.stage \in {"complete", "error"}
  /\ IF cleanupImage(fp.imagePath) = "none"
     THEN /\ fp' = Unmount(fp)
          /\ app' = handleBackFromFlash(app)
          /\ userTasks' = userTasks
     ELSE LET t == [pc |-> "cleanup", path |-> fp.imagePath]
          IN /\ Cardinality(userTasks) < MaxUserTasks
             /\ t \notin userTasks
             /\ userTasks' = userTasks \cup {t}
             /\ fp' = fp
             /\ app' = app
  /\ UNCHANGED <<side, dm, image, reported, chains, storage, hist>>

\* cleanupImage(imagePath) of handleCancel / handleBack settled: onBack()
userCleanupSettled(t) ==
  /\ t \in userTasks /\ t.pc = "cleanup"
  /\ fp' = Unmount(fp)
  /\ app' = handleBackFromFlash(app)
  /\ userTasks' = userTasks \ {t}
  /\ UNCHANGED <<side, dm, image, reported, chains, storage, hist>>

\* Done in stage 'complete': App.handleComplete
onComplete ==
  /\ fp.mounted /\ fp.stage = "complete"
  /\ fp' = Unmount(fp)
  /\ app' = handleComplete(app)
  /\ UNCHANGED <<side, dm, image, reported, chains, userTasks, storage, hist>>

(***************************************************************************)
(* Progress pollers                                                        *)
(***************************************************************************)
PollKinds == {"download", "flash"}

\* A callback of a live interval of kind k, or one left in flight by a
\* cleared interval, gets its response.
PollInFlight(k) ==
  (\E t \in fp.timers : t[2] = k) \/ fp.polls[k] > 0

\* the request that was answered: one of a live interval if there is one
PollAnswered(u, k) ==
  IF \E t \in u.timers : t[2] = k THEN u
  ELSE [u EXCEPT !.polls[k] = @ - 1]

\* get_*_progress of a left-over callback rejected:
\* catch { /* Ignore polling errors */ }
PollRejected(k) ==
  /\ fp.polls[k] > 0
  /\ fp' = [fp EXCEPT !.polls[k] = @ - 1]
  /\ UNCHANGED <<side, app, dm, image, reported, chains, userTasks, storage, hist>>

DownloadProgress ==
  [is_verifying_sha : BOOLEAN, is_decompressing : BOOLEAN,
   progress_percent : reported, error : {NoError, ErrProg}]

FlashProgress ==
  [is_verifying : BOOLEAN, progress_percent : reported,
   error : {NoError, ErrProg}]

\* the stage the poller's closure holds: that of the render in which
\* handleAuthorization was called (mount: 'authorizing', Retry: 'error')
ClosureStages == {"authorizing", "error"}

\* body of startDownload's interval callback after getDownloadProgress()
downloadPollCallback(u, prog, stage) ==
  LET u1 == IF prog.is_verifying_sha /\ stage # "verifying_sha"
            THEN [u EXCEPT !.stage = "verifying_sha",
                           !.maxProgressRef = 0, !.progress = 0]
            ELSE IF prog.is_decompressing /\ stage # "decompressing"
            THEN [u EXCEPT !.stage = "decompressing",
                           !.maxProgressRef = 0, !.progress = 0]
            ELSE u
      u2 == IF ~prog.is_decompressing /\ ~prog.is_verifying_sha
               /\ prog.progress_percent >= u1.maxProgressRef
            THEN [u1 EXCEPT !.maxProgressRef = prog.progress_percent,
                            !.progress = prog.progress_percent]
            ELSE u1
  IN IF prog.error # NoError /\ ~u.deviceDisconnectedRef
     THEN clearInterval([u2 EXCEPT !.error = prog.error, !.stage = "error"])
     ELSE u2

\* body of startFlash's interval callback after getFlashProgress()
flashPollCallback(u, prog) ==
  LET u1 == IF prog.is_verifying
            THEN [u EXCEPT !.stage = "verifying",
                           !.maxProgressRef = IF @ > 50 THEN 0 ELSE @]
            ELSE u
      u2 == IF prog.progress_percent >= u1.maxProgressRef
            THEN [u1 EXCEPT !.maxProgressRef = prog.progress_percent,
                            !.progress = prog.progress_percent]
            ELSE u1
  IN IF prog.error # NoError /\ ~u.deviceDisconnectedRef
     THEN clearInterval([u2 EXCEPT !.error = prog.error, !.stage = "error"])
     ELSE u2

DownloadPollResponse ==
  /\ PollInFlight("download")
  /\ \E prog \in DownloadProgress, stage \in ClosureStages :
       fp' = Render(fp, downloadPollCallback(PollAnswered(fp, "download"),
                                             prog, stage))
  /\ UNCHANGED <<side, app, dm, image, reported, chains, userTasks, storage, hist>>

FlashPollResponse ==
  /\ PollInFlight("flash")
  /\ \E prog \in FlashProgress :
       fp' = Render(fp, flashPollCallback(PollAnswered(fp, "flash"), prog))
  /\ UNCHANGED <<side, app, dm, image, reported, chains, userTasks, storage, hist>>

(***************************************************************************)
(* Device monitor                                                          *)
(***************************************************************************)
\* a check that never looks at the enumeration
checkDeviceBlind(u, devices) == u

\* checkDevice after getBlockDevices(): a rejection is ignored
checkDevice(u, devices) ==
  IF DeviceGone(devices) THEN handleDeviceDisconnected(u) ELSE u

\* a check of the running monitor, or one left in flight by a cleared
\* monitor, gets its enumeration
checkDevice_settled ==
  /\ fp.deviceMonitorRef \/ fp.monChecks > 0
  /\ \E devices \in EnumOutcomes :
       /\ fp' = Render(fp, checkDevice(
                  IF fp.deviceMonitorRef THEN fp
                  ELSE [fp EXCEPT !.monChecks = @ - 1], devices))
       /\ hist' = IF DeviceGone(devices) THEN Detected(hist) ELSE hist
  /\ UNCHANGED <<side, app, dm, image, reported, chains, userTasks, storage>>

\* handleDeviceDisconnected after cancelOperation() settled, either way
handleDeviceDisconnected_settled ==
  /\ fp.discPending > 0
  /\ fp' = Render(fp, [fp EXCEPT !.discPending = @ - 1,
                                 !.error = ErrDeviceDisconnected,
                                 !.stage = "error"])
  /\ UNCHANGED <<side, app, dm, image, reported, chains, userTasks, storage, hist>>

(***************************************************************************)
(* Specifications of FlashProgress                                         *)
(***************************************************************************)
\* the continuations of the run started by the mount effect
FirstRunStep(c) ==
  \/ handleAuthorization_resolved(c)
  \/ handleAuthorization_rejected(c)
  \/ handleCustomImage_needsResolved(c)
  \/ handleCustomImage_decompressResolved(c)
  \/ handleCustomImage_rejected(c)
  \/ handleCustomImage_enumSettled(c)
  \/ startDownload_resolved(c)
  \/ startDownload_rejected(c)
  \/ startDownload_enumSettled(c)
  \/ startFlash_resolved(c)
  \/ startFlash_rejected(c)
  \/ startFlash_enumSettled(c)
  \/ startFlash_forceDeleteResolved(c)
  \/ startFlash_forceDeleteRejected(c)
  \/ startFlash_cleanupErrSettled(c)

\* the Retry button and the authorization it requests
RetryStep ==
  \/ handleRetry
  \/ \E c \in Attempts :
       \/ handleRetry_resolved(c)
       \/ handleRetry_rejected(c)

UserStep ==
  \/ handleCancel
  \/ handleBack
  \/ onComplete
  \/ \E t \in userTasks :
       \/ handleCancel_resolved(t)
       \/ handleCancel_rejected(t)
       \/ userCleanupSettled(t)

\* one run of the component, from mount to Back/Done, without Retry
NextRun ==
  \/ Mount
  \/ \E c \in Attempts : FirstRunStep(c)
  \/ UserStep
  \/ \E k \in PollKinds : PollRejected(k)
  \/ DownloadPollResponse
  \/ FlashPollResponse
  \/ checkDevice_settled
  \/ handleDeviceDisconnected_settled

Next ==
  \/ NextRun
  \/ RetryStep

Spec == Init /\ [][Next]_vars

(***************************************************************************)
(* DeviceModal and the App around it                                       *)
(***************************************************************************)
\* <Modal isOpen={isOpen && !showConfirm}>
ModalShown == app.activeModal = "device" /\ ~dm.showConfirm

\* <ConfirmationDialog isOpen={showConfirm && !!selectedDevice &&
\*                              !selectedDevice.is_system}>
ConfirmShown ==
  /\ dm.showConfirm
  /\ dm.selectedDevice # NoDevice
  /\ ~dm.selectedDevice.is_system

\* useAsyncDataWhen starts a load: loading, and the skeleton effect
startLoad(d) ==
  [d EXCEPT !.loading = TRUE, !.error = FALSE, !.showSkeleton = TRUE,
            !.loads = Min(@ + 1, MaxInFlight)]

\* HomePage's buttons take a click when the page is rendered and no modal
\* overlay covers it
HomeShown == ~app.isFlashing /\ app.activeModal = "none"

\* HomePage.onChooseDevice (disabled={!selectedImage}):
\* setActiveModal('device'); isOpen starts the load
onChooseDevice ==
  /\ HomeShown /\ app.selectedImage # NoSelection
  /\ app' = [app EXCEPT !.activeModal = "device"]
  /\ dm' = startLoad(dm)
  /\ UNCHANGED <<side, flashVars>>

\* the Refresh button (disabled while loading) or ErrorDisplay's retry
reload ==
  /\ ModalShown
  /\ dm.error \/ (~dm.loading /\ ~dm.showSkeleton)
  /\ dm' = startLoad(dm)
  /\ UNCHANGED <<side, app, flashVars>>

\* the load resolved: rawDevices changes and its effect runs
load_resolved ==
  /\ dm.loads > 0
  /\ \E list \in BlockDeviceLists :
       dm' = acceptDevices([dm EXCEPT !.loads = @ - 1, !.loading = FALSE,
                                     !.rawDevices = SomeList(list)], list)
  /\ UNCHANGED <<side, app, flashVars>>

load_rejected ==
  /\ dm.loads > 0
  /\ dm' = [dm EXCEPT !.loads = @ - 1, !.loading = FALSE, !.error = TRUE]
  /\ UNCHANGED <<side, app, flashVars>>

\* setTimeout(() => setShowSkeleton(false), 300) of the skeleton effect
skeletonTimeout ==
  /\ ~dm.loading /\ dm.showSkeleton
  /\ dm' = [dm EXCEPT !.showSkeleton = FALSE]
  /\ UNCHANGED <<side, app, flashVars>>

\* a tick of the interval that runs while isOpen && !showConfirm
pollDevices ==
  /\ ModalShown
  /\ dm.polls < MaxInFlight
  /\ dm' = [dm EXCEPT !.polls = @ + 1]
  /\ UNCHANGED <<side, app, flashVars>>

pollDevices_resolved ==
  /\ dm.polls > 0
  /\ \E newDevices \in BlockDeviceLists :
       dm' = acceptDevices([dm EXCEPT !.polls = @ - 1], newDevices)
  /\ UNCHANGED <<side, app, flashVars>>

\* catch { /* Silently ignore polling errors */ }
pollDevices_rejected ==
  /\ dm.polls > 0
  /\ dm' = [dm EXCEPT !.polls = @ - 1]
  /\ UNCHANGED <<side, app, flashVars>>

toggleSystemDevices ==
  /\ ModalShown
  /\ dm' = [dm EXCEPT !.showSystemDevices = ~@]
  /\ UNCHANGED <<side, app, flashVars>>

handleDeviceClick(d, device) ==
  IF device.is_system THEN d
  ELSE [d EXCEPT !.selectedDevice = device, !.showConfirm = TRUE]

\* a click on a list button: the list is rendered without error and
\* skeleton, and a button with disabled={device.is_system} takes no click
deviceButtonClick ==
  /\ ModalShown /\ ~dm.error /\ ~dm.showSkeleton
  /\ \E i \in 1..Len(filteredDevices(dm)) :
       LET device == filteredDevices(dm)[i]
       IN /\ ~device.is_system
          /\ dm' = handleDeviceClick(dm, device)
  /\ UNCHANGED <<side, app, flashVars>>

\* the dialog's confirm button
handleConfirm ==
  /\ ConfirmShown
  /\ IF dm.selectedDevice # NoDevice /\ ~dm.selectedDevice.is_system
     THEN /\ app' = handleDeviceSelect(app, confirmedDevice(dm))
          /\ dm' = [dm EXCEPT !.showConfirm = FALSE]
     ELSE UNCHANGED <<app, dm>>
  /\ UNCHANGED <<side, flashVars>>

\* the dialog's cancel button: onCancel={() => setShowConfirm(false)}
cancelConfirm ==
  /\ ConfirmShown
  /\ dm' = [dm EXCEPT !.showConfirm = FALSE]
  /\ UNCHANGED <<side, app, flashVars>>

\* the modal's close button: onClose={() => setActiveModal('none')}
onClose ==
  /\ ModalShown
  /\ app' = [app EXCEPT !.activeModal = "none"]
  /\ UNCHANGED <<side, dm, flashVars>>

\* FlashProgress ends with onBack or onComplete
flashEnds ==
  /\ app.isFlashing
  /\ \/ app' = handleBackFromFlash(app)
     \/ app' = handleComplete(app)
  /\ UNCHANGED <<side, dm, flashVars>>

\* DeviceModal closed and no FlashProgress started
AtRest ==
  /\ dm = InitDm
  /\ image = [is_custom |-> FALSE, custom_path |-> NoPath]
  /\ reported = {0}
  /\ fp = InitFp
  /\ chains = [c \in Attempts |-> IdleChain]
  /\ userTasks = {}
  /\ storage = NoItem
  /\ hist = InitHist
  /\ side = InitSide

InitDevice ==
  /\ app = ImageChosen(FALSE)
  /\ AtRest

NextDevice ==
  \/ onChooseDevice
  \/ reload
  \/ load_resolved
  \/ load_rejected
  \/ skeletonTimeout
  \/ pollDevices
  \/ pollDevices_resolved
  \/ pollDevices_rejected
  \/ toggleSystemDevices
  \/ deviceButtonClick
  \/ handleConfirm
  \/ cancelConfirm
  \/ onClose
  \/ flashEnds

SpecDevice == InitDevice /\ [][NextDevice]_vars

(***************************************************************************)
(* App: the selection wizard                                               *)
(***************************************************************************)
onChooseManufacturer ==
  /\ HomeShown
  /\ app' = [app EXCEPT !.activeModal = "manufacturer"]
  /\ UNCHANGED <<dm, side, flashVars>>

\* disabled={!selectedManufacturer || isCustomImage}
onChooseBoard ==
  /\ HomeShown
  /\ app.selectedManufacturer # NoSelection
  /\ app.selectedImage # CustomImage
  /\ app' = [app EXCEPT !.activeModal = "board"]
  /\ UNCHANGED <<dm, side, flashVars>>

\* disabled={!selectedBoard || isCustomImage}
onChooseImage ==
  /\ HomeShown
  /\ app.selectedBoard # NoSelection
  /\ app.selectedImage # CustomImage
  /\ app' = [app EXCEPT !.activeModal = "image"]
  /\ UNCHANGED <<dm, side, flashVars>>

\* ManufacturerModal's onSelect
manufacturerSelected ==
  /\ app.activeModal = "manufacturer"
  /\ \E manufacturer \in Manufacturers :
       app' = handleManufacturerSelect(app, manufacturer)
  /\ UNCHANGED <<dm, side, flashVars>>

\* BoardModal's onSelect
boardSelected ==
  /\ app.activeModal = "board"
  /\ \E board \in ListedBoards : app' = handleBoardSelect(app, board)
  /\ UNCHANGED <<dm, side, flashVars>>

\* ImageModal's onSelect
imageSelected ==
  /\ app.activeModal = "image"
  /\ app' = handleImageSelect(app, ListedImage)
  /\ UNCHANGED <<dm, side, flashVars>>

\* DeviceModal's onSelect, with the non-system device it confirmed
deviceSelected ==
  /\ app.activeModal = "device"
  /\ app' = handleDeviceSelect(app, TargetDevice)
  /\ UNCHANGED <<dm, side, flashVars>>

\* onClose={() => setActiveModal('none')} of any modal; ImageModal's
\* effect on isOpen runs with the render that follows
closeModal ==
  /\ app.activeModal # "none"
  /\ app' = [app EXCEPT !.activeModal = "none"]
  /\ side' = [side EXCEPT !.im = closeEffect(@, FALSE)]
  /\ UNCHANGED <<dm, flashVars>>

\* handleCustomImage up to its await of selectCustomImage()
onChooseCustomImage ==
  /\ HomeShown
  /\ app.picks < MaxPicks
  /\ app' = [app EXCEPT !.picks = @ + 1]
  /\ UNCHANGED <<dm, side, flashVars>>

\* selectCustomImage() resolved with a file: if (result) { ... }
customImageChosen ==
  /\ app.picks > 0
  /\ app' = handleCustomImage([app EXCEPT !.picks = @ - 1])
  /\ UNCHANGED <<dm, side, flashVars>>

\* selectCustomImage() resolved with null, or rejected (console.error)
customImageNone ==
  /\ app.picks > 0
  /\ app' = [app EXCEPT !.picks = @ - 1]
  /\ UNCHANGED <<dm, side, flashVars>>

\* the callback App gives useDeviceMonitor, enabled while !isFlashing
onDeviceDisconnected ==
  /\ ~app.isFlashing
  /\ app.selectedDevice # NoDevice
  /\ app' = [app EXCEPT !.selectedDevice = NoDevice]
  /\ UNCHANGED <<dm, side, flashVars>>

(***************************************************************************)
(* ImageModal: the list buttons and the warning dialog                     *)
(***************************************************************************)
\* {showUnstableWarning && pendingImage && <ConfirmationDialog .../>},
\* inside <Modal isOpen={isOpen}>
WarningShown ==
  /\ app.activeModal = "image"
  /\ side.im.showUnstableWarning
  /\ side.im.pendingImage # NoSelection

\* a list button: handleImageClick(image)
handleImageClick ==
  /\ app.activeModal = "image" /\ ~WarningShown
  /\ \E img \in ListedImages :
       IF ~needsWarning(img, app.selectedBoard)
       THEN /\ app' = handleImageSelect(app, img)
            /\ side' = [side EXCEPT !.im = closeEffect(@, FALSE)]
       ELSE /\ app' = app
            /\ side' = [side EXCEPT !.im = [pendingImage |-> img,
                                            showUnstableWarning |-> TRUE]]
  /\ UNCHANGED <<dm, flashVars>>

\* the dialog's confirm button
handleUnstableWarningConfirm ==
  /\ WarningShown
  /\ app' = IF side.im.pendingImage # NoSelection
            THEN handleImageSelect(app, side.im.pendingImage)
            ELSE app
  /\ side' = [side EXCEPT !.im =
       closeEffect([pendingImage |-> NoSelection,
                    showUnstableWarning |-> FALSE],
                   app'.activeModal = "image")]
  /\ UNCHANGED <<dm, flashVars>>

\* the dialog's cancel button, or a click on its overlay
handleUnstableWarningCancel ==
  /\ WarningShown
  /\ side' = [side EXCEPT !.im = [pendingImage |-> NoSelection,
                                  showUnstableWarning |-> FALSE]]
  /\ UNCHANGED <<app, dm, flashVars>>

NextImage ==
  \/ onChooseManufacturer
  \/ onChooseBoard
  \/ onChooseImage
  \/ manufacturerSelected
  \/ boardSelected
  \/ closeModal
  \/ onChooseCustomImage
  \/ customImageChosen
  \/ customImageNone
  \/ handleImageClick
  \/ handleUnstableWarningConfirm
  \/ handleUnstableWarningCancel

InitWizard ==
  /\ app = InitApp
  /\ AtRest

NextWizard ==
  \/ onChooseManufacturer
  \/ onChooseBoard
  \/ onChooseImage
  \/ onChooseDevice
  \/ manufacturerSelected
  \/ boardSelected
  \/ imageSelected
  \/ deviceSelected
  \/ closeModal
  \/ onChooseCustomImage
  \/ customImageChosen
  \/ customImageNone
  \/ onDeviceDisconnected
  \/ flashEnds

SpecWizard == InitWizard /\ [][NextWizard]_vars

SpecImage == InitWizard /\ [][NextImage]_vars

\* One run in which the backend may report any of Percents, in any order.
InitProgress ==
  /\ InitFlash
  /\ reported = Percents

SpecProgress == InitProgress /\ [][NextRun]_vars

(***************************************************************************)
(* Specifications of the modules beside the flash flow: the application    *)
(* is at rest on the home page                                             *)
(***************************************************************************)
SpecStore == InitDevice /\ [][NextStore]_vars

\* the settings panel with both sections mounted
SpecSettings == InitDevice /\ [][NextSettings]_vars

\* one component using useManufacturerList
SpecVendor == InitDevice /\ [][NextVendor]_vars

\* the update modal
SpecUpdate == InitDevice /\ [][NextUpdate]_vars

(***************************************************************************)
(* Properties                                                              *)
(***************************************************************************)
PollResponse == DownloadPollResponse \/ FlashPollResponse

\* C10: a poll response that leaves the stage at 'downloading', 'flashing'
\* or 'verifying' never lowers the progress percentage shown to the user.
C10_ProgressNeverDecreasesWithinStage ==
  [][(/\ PollResponse
      /\ fp.mounted /\ fp'.mounted
      /\ fp.stage \in {"downloading", "flashing", "verifying"}
      /\ fp'.stage = fp.stage)
     => fp'.progress >= fp.progress]_vars

\* C9: once the stage is 'complete' it stays 'complete' for as long as the
\* component is mounted; no late poll response or device check moves it.
C9_CompleteIsStable ==
  [][(fp.mounted /\ fp.stage = "complete")
     => (~fp'.mounted \/ fp'.stage = "complete")]_vars

\* C8: handling the rejection of a flash_image that a user Cancel has
\* cancelled neither increments the stored failure counter nor invokes
\* force_delete_cached_image.
C8_CancelCountsNoFailure ==
  [][\A c \in hist.cancelled :
       startFlash_enumSettled(c) =>
         /\ getFlashFailureCount(storage') <= getFlashFailureCount(storage)
         /\ chains'[c].pc # "forceDel"]_vars

\* C4: at no time are two invocations among download_image,
\* decompress_custom_image and flash_image outstanding together.
C4_AtMostOneOperationOutstanding ==
  Cardinality(Outstanding(chains)) <= 1

\* the attempt that made the most recent authorization request
LatestAttempt(ch) ==
  CHOOSE c \in Attempts :
    /\ ch[c].pc # "idle"
    /\ \A d \in Attempts : ch[d].pc # "idle" => d <= c

\* C2: flash_image is not issued while the most recent authorization
\* request is pending, was denied or failed.
C2_NoFlashWithoutLatestAuthorization ==
  [][\A c \in Attempts :
       (chains[c].pc # "flash" /\ chains'[c].pc = "flash") =>
         chains'[LatestAttempt(chains')].authorized = "true"]_vars

\* C6: while the component is mounted, the device-disconnected message,
\* once shown, is replaced by no other error and is not cleared, except by
\* a Retry click.
C6_DisconnectedMessageStays ==
  [][(fp.mounted /\ fp.error = ErrDeviceDisconnected) =>
       \/ fp'.error = ErrDeviceDisconnected
       \/ ~fp'.mounted
       \/ handleRetry]_vars

\* C3: when an attempt's request_write_authorization returns false or
\* rejects, that attempt ends there, having invoked none of download_image,
\* decompress_custom_image and flash_image, and the stage is 'error' with an
\* error message; the attempt does nothing afterwards.
C3_AuthorizationFailsClosed ==
  [][\A c \in Attempts :
       /\ (/\ chains[c].authorized = "pending"
           /\ chains'[c].authorized \in {"false", "rejected"})
          => /\ chains'[c].pc = "done"
             /\ fp.mounted => (fp'.stage = "error" /\ fp'.error # NoError)
       /\ chains[c].authorized \in {"false", "rejected"}
          => chains'[c] = chains[c]]_vars

\* a Retry's authorization was denied and the denial is on display
C3_DeniedShown ==
  /\ fp.mounted /\ fp.stage = "error" /\ fp.error = ErrAuthCancelled
  /\ chains[1].authorized = "false"
  /\ chains[2].authorized \in {"false", "rejected"}

MonitorRunsOrDetected(u) ==
  (u.mounted /\ u.stage \in activeStages) =>
    (u.deviceMonitorRef \/ u.discPending > 0)

\* a running monitor's check that resolves without the target device
\* invokes cancel_operation and flags the disconnection
CheckDetects(u) ==
  (u.mounted /\ u.stage \in activeStages /\ u.deviceMonitorRef) =>
    \A devices \in EnumOutcomes :
      DeviceGone(devices) =>
        LET v == checkDevice(u, devices)
        IN v.deviceDisconnectedRef /\ v.discPending > 0

C11_CompleteShowsNoError ==
  (fp.mounted /\ fp.stage = "complete") => fp.error = NoError

\* C12: a rejection of the cancel_operation that the Cancel button invoked
\* is not discarded: when its handler has run, the stage is 'error' and an
\* error message is set.
C12_CancelFailureShown ==
  [][\A t \in userTasks :
       (handleCancel_rejected(t) /\ fp.mounted)
         => (fp'.stage = "error" /\ fp'.error # NoError)]_vars

\* C13: when the user aborts (Back) from the error of a failed download, a
\* command that deletes the file of that download is invoked.
C13_AbortDeletesFailedDownload ==
  [][(handleBack /\ fp.stage = "error" /\ fp.error = ErrDownloadFailed)
       => \E t \in userTasks' \ userTasks : t.pc = "cleanup"]_vars

\* C14: handling the rejection of a flash_image during which the target
\* device was found disconnected leaves the stored failure counter as it is.
C14_DisconnectedFlashNotCounted ==
  [][\A c \in hist.detected :
       startFlash_enumSettled(c) => storage' = storage]_vars

\* C15: load() is in flight at most once at a time; every caller that got a
\* store got the one instance; once a load has succeeded load() is not
\* called again; when a load fails every caller waiting for it gets an
\* error, and the next getStore call starts a new load.
C15_GetStoreLoadsOnce ==
  [][/\ Cardinality(side'.ss.pending) <= 1
     /\ \A k \in Callers :
          side'.ss.callers[k].at = "got"
            => /\ side'.ss.callers[k].store = side'.ss.storeInstance
               /\ side'.ss.storeInstance # NoStore
     /\ side.ss.storeInstance # NoStore
          => /\ side'.ss.loads = side.ss.loads
             /\ side'.ss.storeInstance = side.ss.storeInstance
     /\ \A n \in side.ss.pending :
          (n \notin side'.ss.pending /\ side'.ss.storeInstance = NoStore)
            => /\ \A k \in Callers :
                    side.ss.callers[k].at = "waiting"
                      => side'.ss.callers[k].at = "failed"
               /\ side'.ss.storePromise = NoStore
     /\ (/\ callGetStore
         /\ side.ss.storeInstance = NoStore
         /\ side.ss.pending = {})
          => side'.ss.pending = {side.ss.loads + 1}]_vars

\* the first load has failed and every caller got its error; the second
\* load is in flight, with two callers waiting for its one promise
C15_SharedAfterFailure ==
  /\ side.ss.loads = 2
  /\ side.ss.pending = {2}
  /\ \E k \in Callers :
       /\ side.ss.callers[k].at = "failed"
       /\ \A j \in Callers \ {k} :
            /\ side.ss.callers[j].at = "waiting"
            /\ side.ss.callers[j].promise = 2

\* the wizard's selections are consistent: a device only with an image, an
\* image only with a board
SelectionsConsistent(a) ==
  /\ a.selectedDevice # NoDevice => a.selectedImage # NoSelection
  /\ a.selectedImage # NoSelection => a.selectedBoard # NoSelection

\* C16: selecting a manufacturer clears board, image and device; selecting
\* a board clears image and device; selecting an image clears the device;
\* choosing a custom image clears manufacturer and device; and after every
\* step a selected device implies a selected image, a selected image a
\* selected board.
C16_SelectionInvalidatesDownstream ==
  [][/\ manufacturerSelected
          => /\ app'.selectedManufacturer # NoSelection
             /\ app'.selectedBoard = NoSelection
             /\ app'.selectedImage = NoSelection
             /\ app'.selectedDevice = NoDevice
     /\ boardSelected
          => /\ app'.selectedBoard \in ListedBoards
             /\ app'.selectedManufacturer = app.selectedManufacturer
             /\ app'.selectedImage = NoSelection
             /\ app'.selectedDevice = NoDevice
     /\ imageSelected
          => /\ app'.selectedImage = ListedImage
             /\ app'.selectedBoard = app.selectedBoard
             /\ app'.selectedDevice = NoDevice
     /\ customImageChosen
          => /\ app'.selectedImage = CustomImage
             /\ app'.selectedManufacturer = NoSelection
             /\ app'.selectedDevice = NoDevice
     /\ SelectionsConsistent(app')]_vars

\* everything is selected, a device included (kept after Back from the
\* flash), and the manufacturer modal is open: the next selection has a
\* board, an image and a device to clear
C16_ReselectWithDeviceKept ==
  /\ app.activeModal = "manufacturer"
  /\ app.selectedManufacturer # NoSelection
  /\ app.selectedBoard \in ListedBoards
  /\ app.selectedImage = ListedImage
  /\ app.selectedDevice # NoDevice

\* C17: an image that needs the warning becomes the selected image only by
\* the dialog's confirm button; cancelling the dialog or closing the modal
\* leaves the selection as it is and clears the pending image; whenever
\* the modal is closed no image is pending and no warning is set.
C17_UnstableImageNeedsConfirmation ==
  [][/\ (/\ app'.selectedImage # app.selectedImage
         /\ app'.selectedImage \in ListedImages
         /\ needsWarning(app'.selectedImage, app.selectedBoard))
          => handleUnstableWarningConfirm
     /\ (handleUnstableWarningCancel \/ (closeModal /\ app.activeModal = "image"))
          => /\ app'.selectedImage = app.selectedImage
             /\ side'.im.pendingImage = NoSelection
     /\ app'.activeModal # "image" => side'.im = InitIm]_vars

\* the nightly image was confirmed: it is selected, on a board without
\* community support, and the modal is closed
C17_NightlyConfirmed ==
  /\ app.selectedImage = NightlyImage
  /\ app.selectedBoard = ListedBoard
  /\ app.activeModal = "none"

\* C18: clear_cache is invoked only by the confirm button of the open
\* confirmation dialog; the Clear button invokes nothing and takes a click
\* only while no clear is running and the displayed size is not 0; the
\* clear sets the displayed size to 0 when clear_cache succeeded and leaves
\* it as it is when clear_cache failed; apart from the clear, only a
\* measurement by get_cache_size brings the displayed size to 0.
C18_ClearCacheOnlyOnConfirm ==
  [][/\ side'.gs.clears > side.gs.clears
          => (handleClearCacheConfirm /\ side.gs.showClearConfirm)
     /\ handleClearCacheClick
          => /\ side'.gs.clears = side.gs.clears
             /\ ~side.gs.isClearing
             /\ side.gs.currentCacheSize # 0
     /\ handleClearCacheConfirm
          => side'.gs.currentCacheSize = side.gs.currentCacheSize
     /\ clearCache_resolved => side'.gs.currentCacheSize = 0
     /\ clearCache_rejected
          => side'.gs.currentCacheSize = side.gs.currentCacheSize
     /\ (side.gs.currentCacheSize # 0 /\ side'.gs.currentCacheSize = 0)
          => (clearCache_resolved \/ loadCacheSize_resolved)]_vars

\* the user has confirmed: clear_cache is running, the dialog is closed
\* and the size is still displayed
C18_ClearRunning ==
  /\ side.gs.clears = 1
  /\ side.gs.isClearing
  /\ ~side.gs.showClearConfirm
  /\ side.gs.currentCacheSize # 0

\* C19: at most one setDeveloperMode call is in flight; no toggle starts
\* while one is; when the call fails the displayed value is the one shown
\* before that toggle and no settings-changed event is dispatched.
C19_ToggleOptimisticWithRollback ==
  [][/\ Len(side'.adv.calls) <= 1
     /\ (side.adv.calls # <<>> /\ handleToggleDeveloperMode)
          => side'.adv = side.adv
     /\ handleToggleDeveloperMode
          => side'.adv.calls =
               <<[previousValue |-> side.adv.developerMode,
                  newValue |-> side'.adv.developerMode]>>
     /\ setDeveloperMode_rejected
          => /\ side'.adv.developerMode = Head(side.adv.calls).previousValue
             /\ side'.adv.events = side.adv.events
             /\ ~side'.adv.isToggling]_vars

\* a toggle is in flight with its optimistic value on display, and the
\* stored preference, loaded meanwhile, did not change what is shown
C19_ToggleInFlight ==
  /\ side.adv.isToggling
  /\ ~side.adv.loading
  /\ side.adv.calls = <<[previousValue |-> FALSE, newValue |-> TRUE]>>
  /\ side.adv.developerMode

\* some preload of a run of the preload effect has not settled
PreloadPending == \E k \in DOMAIN side.vl.batches : side.vl.batches[k].pending # {}

\* the sum of the boardCount values of a list
RECURSIVE sumBoardCount(_)
sumBoardCount(list) ==
  IF list = <<>> THEN 0 ELSE Head(list).boardCount + sumBoardCount(Tail(list))

\* the list is empty until every preload has settled
EmptyUntilSettled == PreloadPending => manufacturers(side.vl) = <<>>

\* every board is counted under one entry, and the counts add up
CountedOnce ==
  LET v == side.vl
      m == manufacturers([v EXCEPT !.searchFilter = ""])
  IN v.state.isLoaded /\ v.boards.has
       => /\ \A i \in DOMAIN v.boards.list :
               Cardinality({j \in DOMAIN m :
                 m[j].id = vendorIdOf(v.boards.list[i], v.state.failedLogos)})
               = 1
          /\ \A j, k \in DOMAIN m : m[j].id = m[k].id => j = k
          /\ sumBoardCount(m) = Len(v.boards.list)

\* a board without a logo, or with one that does not load, is under 'other'
BadLogoUnderOther ==
  LET v == side.vl
  IN v.state.isLoaded /\ v.boards.has
       => \A i \in DOMAIN v.boards.list :
            (v.boards.list[i].vendor_logo = NoLogo
             \/ ~preloadImage(v.boards.list[i].vendor_logo))
              => vendorIdOf(v.boards.list[i], v.state.failedLogos)
                   = VENDOR_FALLBACK_ID

\* the 'other' entry is the last one
OtherLast ==
  LET m == manufacturers(side.vl)
  IN \A j \in DOMAIN m : m[j].id = VENDOR_FALLBACK_ID => j = Len(m)

\* C20: the manufacturer list is empty until every vendor-logo preload has
\* settled; once loaded, each board is counted under exactly one entry, a
\* board whose logo is missing or failed to load under 'other', the
\* boardCount values of the unfiltered list add up to the number of boards,
\* and the 'other' entry is the last of the list.
C20_ManufacturerList ==
  /\ EmptyUntilSettled
  /\ CountedOnce
  /\ BadLogoUnderOther
  /\ OtherLast

\* the place of a stage in the order of one attempt
StageRank(stage) ==
  CASE stage = "authorizing" -> 1
    [] stage = "downloading" -> 2
    [] stage = "verifying_sha" -> 3
    [] stage = "decompressing" -> 4
    [] stage = "flashing" -> 5
    [] stage = "verifying" -> 6
    [] stage = "complete" -> 7
    [] OTHER -> 0

\* C21: within one attempt (no Retry in between) the displayed stage never
\* moves from one of authorizing, downloading, verifying_sha,
\* decompressing, flashing, verifying, complete to an earlier one of them;
\* in particular no progress-poll response moves it back.
C21_StageMovesForward ==
  [][(/\ fp.mounted /\ fp'.mounted
      /\ ~handleRetry
      /\ fp.stage # "error" /\ fp'.stage # "error")
     => StageRank(fp'.stage) >= StageRank(fp.stage)]_vars

\* C22: the update modal is shown exactly when its state is one of
\* available, downloading, ready, error and it has not been dismissed; a
\* failed update check leaves the state idle and the modal hidden; Later
\* hides the modal, and once dismissed it stays hidden whatever a download
\* in flight does afterwards.
C22_UpdateModalVisibility ==
  [][/\ side.um.state \in UpdateState
     /\ modalShown(side.um)
          <=> (/\ side.um.state \in
                    {"available", "downloading", "ready", "error"}
               /\ ~side.um.dismissed)
     /\ check_rejected
          => (side'.um.state = "idle" /\ ~modalShown(side'.um))
     /\ laterClicked => side'.um.dismissed
     /\ side.um.dismissed
          => (side'.um.dismissed /\ ~modalShown(side'.um))]_vars

\* the modal was dismissed while downloading and the download has finished
\* since
C22_ReadyAfterDismissal ==
  /\ side.um.dismissed
  /\ side.um.state = "ready"
  /\ side.um.downloads = 0

\* cancel_operation has been invoked for attempt c: by
\* handleDeviceDisconnected, whose deviceDisconnectedRef only the Retry that
\* starts a later attempt resets; or by a Cancel whose call is still in
\* flight, c being the only attempt there has been
CancelInvokedFor(c) ==
  \/ fp.deviceDisconnectedRef
  \/ /\ \E t \in userTasks : t.pc = "cancel"
     /\ \A d \in Attempts \ {c} : chains[d].pc = "idle"

\* C23: an attempt for which cancel_operation has been invoked does not go
\* on to flash_image when its pending download_image or
\* decompress_custom_image resolves.
C23_NoFlashAfterCancel ==
  [][\A c \in Attempts :
       (chains[c].pc \in {"download", "decomp"} /\ CancelInvokedFor(c))
         => chains'[c].pc # "flash"]_vars

\* C24: flash_image is never invoked with the path of an image file that a
\* delete command of FlashProgress has deleted; a Retry after the deletion
\* downloads the image again before it flashes.
C24_RetryNeverFlashesDeletedFile ==
  [][\A c \in Attempts :
       (chains[c].pc # "flash" /\ chains'[c].pc = "flash")
         => ~hist'.deleted]_vars

\* the delete command a step of FlashProgress issues with the path the user
\* chose: cleanupImage(path) after flash_image settled, in handleCancel and
\* in handleBack
DeletesCustomPath ==
  \/ \E c \in Attempts :
       /\ chains[c].path = CustomPath
       /\ cleanupImage(chains[c].path) # "none"
       /\ \/ startFlash_resolved(c)
          \/ (chains[c].pc # "cleanupErr" /\ chains'[c].pc = "cleanupErr")
  \/ \E t \in userTasks' \ userTasks :
       t.pc = "cleanup" /\ t.path = CustomPath

\* C25: for a custom image no delete command gets image.custom_path, the
\* file the user chose; only a decompressed copy is deleted.
C25_CustomPathNeverDeleted ==
  [][image.is_custom => ~DeletesCustomPath]_vars

\* C26: whatever enumeration a poll in flight delivers, the list shown
\* after it carries that enumeration's classification: a device the
\* enumeration flags is_system is flagged in the list as well, so that it
\* can be neither clicked nor confirmed.
C26_ListCarriesLatestClassification ==
  dm.polls > 0 =>
    \A newDevices \in BlockDeviceLists :
      LET shown == acceptDevices([dm EXCEPT !.polls = @ - 1],
                                 newDevices).devices
      IN \A i \in 1..Len(newDevices), j \in 1..Len(shown) :
           (newDevices[i].is_system /\ shown[j].path = newDevices[i].path)
             => shown[j].is_system
====
